---- MODULE Spec2Model ----
(***************************************************************************)
(* Strong Teams automation: the processed-events ledger                    *)
(* (ProcessedEventsTracker), the Phase 1 / Phase 2 transitions and the     *)
(* batch orchestrator (onCalendarTrigger).                                 *)
(*                                                                         *)
(* Text is modelled as a sequence of character codes, so that case         *)
(* folding, trimming, concatenation and hashing are computed as the        *)
(* JavaScript computes them.  The empty string is << >>.                   *)
(***************************************************************************)
EXTENDS Integers, Sequences, FiniteSets, TLC

\* ------------------------------------------------------------------------
\* Bounds of the model
\* ------------------------------------------------------------------------
MaxEdits == 2
MaxTicks == 2
MaxIdsCalls == 3
MaxRows == 3
MaxSheetRows == 3
MaxFiles == 3

\* ------------------------------------------------------------------------
\* String helpers (JavaScript String methods on character-code sequences)
\* ------------------------------------------------------------------------
Min(a, b) == IF a < b THEN a ELSE b

toLowerChar(c) == IF c >= 65 /\ c <= 90 THEN c + 32 ELSE c

toUpperChar(c) == IF c >= 97 /\ c <= 122 THEN c - 32 ELSE c

toLowerCase(s) == [i \in 1..Len(s) |-> toLowerChar(s[i])]

isSpace(c) == c \in {9, 10, 13, 32}

RECURSIVE trimStart(_)
trimStart(s) == IF s # <<>> /\ isSpace(Head(s)) THEN trimStart(Tail(s)) ELSE s

RECURSIVE trimEnd(_)
trimEnd(s) ==
  IF s # <<>> /\ isSpace(s[Len(s)]) THEN trimEnd(SubSeq(s, 1, Len(s) - 1)) ELSE s

trim(s) == trimEnd(trimStart(s))

\* s.substring(0, n)
substring0(s, n) == SubSeq(s, 1, Min(n, Len(s)))

\* s.includes(t)
includes(s, t) ==
  \E i \in 1..(Len(s) + 1) : i + Len(t) - 1 <= Len(s) /\ SubSeq(s, i, i + Len(t) - 1) = t

\* index (1-based) of the first occurrence of character c in s, 0 when absent
indexOfChar(s, c) ==
  IF \E i \in 1..Len(s) : s[i] = c
  THEN CHOOSE i \in 1..Len(s) : s[i] = c /\ \A j \in 1..(i - 1) : s[j] # c
  ELSE 0

\* parts.join(sep)
RECURSIVE join(_, _)
join(parts, sep) ==
  IF parts = <<>> THEN <<>>
  ELSE IF Len(parts) = 1 THEN parts[1]
  ELSE parts[1] \o sep \o join(Tail(parts), sep)

\* decimal digits of n, most significant first
RECURSIVE decimal(_)
decimal(n) == IF n < 10 THEN <<48 + n>> ELSE decimal(n \div 10) \o <<48 + (n % 10)>>

RECURSIVE padStart(_, _)
padStart(s, width) == IF Len(s) >= width THEN s ELSE padStart(<<48>> \o s, width)

RECURSIVE parseDecimal(_)
parseDecimal(s) ==
  IF s = <<>> THEN 0 ELSE 10 * parseDecimal(SubSeq(s, 1, Len(s) - 1)) + (s[Len(s)] - 48)

\* ------------------------------------------------------------------------
\* Time.  Instants are whole hours; Date.toISOString renders an instant as
\* five decimal digits followed by "Z", and new Date(text) parses it back.
\* ------------------------------------------------------------------------
TickHours == 24 * 70

LeadHours == 24 * 2

toISOString(t) == padStart(decimal(t), 5) \o <<90>>

parseDate(s) == parseDecimal(SubSeq(s, 1, Len(s) - 1))

\* "Day <n>": the calendar day of the instant, the hour is dropped
getFormattedDate(t) == <<68, 97, 121, 32>> \o decimal(t \div 24)

\* "<h>:00": the hour of the day, the day is dropped
getFormattedTime(t) == decimal(t % 24) \o <<58, 48, 48>>

\* ------------------------------------------------------------------------
\* CONFIG
\* ------------------------------------------------------------------------
retentionDays == 120
lookbackHours == 1
lookaheadHours == 2160
enabled == TRUE
storeFullUrlInRow4 == FALSE
notifyOnSuccess == FALSE
notifyOnError == TRUE

PHASE1_rows_date == 2
PHASE1_rows_time == 3
PHASE1_rows_name == 7
PHASE1_rows_zoomLink == 9
PHASE2_rows_date == 2
PHASE2_rows_time == 3
PHASE2_rows_zoomLink == 9
phase1LinkRow == 4
phase1LoginCodeRow == 8
phase2LoginCodeRow == 8

PHASE1_identifiers ==
  { <<54, 48, 32, 77, 105, 110, 117, 116, 101, 32, 80, 104, 97, 115, 101, 32, 49, 32, 45, 32,
      76, 101, 97, 100, 101, 114, 32, 79, 110, 108, 121>>,  \* "60 Minute Phase 1 - Leader Only"
    <<80, 104, 97, 115, 101, 32, 49, 32, 45, 32, 76, 101, 97, 100, 101, 114, 32, 79, 110,
      108, 121>>,                                           \* "Phase 1 - Leader Only"
    <<80, 104, 97, 115, 101, 32, 49, 32, 67, 111, 97, 99, 104, 105, 110, 103>>,
                                                            \* "Phase 1 Coaching"
    <<54, 48, 32, 77, 105, 110, 117, 116, 101, 32, 80, 104, 97, 115, 101, 32, 49>> }
                                                            \* "60 Minute Phase 1"

PHASE2_identifiers ==
  { <<57, 48, 32, 77, 105, 110, 117, 116, 101, 32, 80, 104, 97, 115, 101, 32, 50, 32, 45, 32,
      84, 101, 97, 109, 32, 66, 117, 105, 108, 100, 105, 110, 103>>,
                                                     \* "90 Minute Phase 2 - Team Building"
    <<80, 104, 97, 115, 101, 32, 50, 32, 45, 32, 84, 101, 97, 109, 32, 66, 117, 105, 108,
      100, 105, 110, 103>>,                          \* "Phase 2 - Team Building"
    <<80, 104, 97, 115, 101, 32, 50, 32, 84, 101, 97, 109, 32, 66, 117, 105, 108, 100, 105,
      110, 103>>,                                    \* "Phase 2 Team Building"
    <<57, 48, 32, 77, 105, 110, 117, 116, 101, 32, 80, 104, 97, 115, 101, 32, 50>> }
                                                     \* "90 Minute Phase 2"

\* ------------------------------------------------------------------------
\* Calendar events.  A description is the booking form's text; the model
\* keeps its fields and renders the text from them.
\* ------------------------------------------------------------------------
EventIds == {"e1", "e2"}

Phase1Appointment ==
  <<54, 48, 32, 77, 105, 110, 117, 116, 101, 32, 80, 104, 97, 115, 101, 32, 49, 32, 45, 32,
    76, 101, 97, 100, 101, 114, 32, 79, 110, 108, 121>>   \* "60 Minute Phase 1 - Leader Only"

Phase2Appointment ==
  <<57, 48, 32, 77, 105, 110, 117, 116, 101, 32, 80, 104, 97, 115, 101, 32, 50, 32, 45, 32,
    84, 101, 97, 109, 32, 66, 117, 105, 108, 100, 105, 110, 103>>
                                                   \* "90 Minute Phase 2 - Team Building"

AnnEmail == <<97, 110, 110, 64, 97, 99, 109, 101, 46, 99, 111, 109>>      \* "ann@acme.com"
AnnEmailMixed == <<65, 110, 110, 64, 65, 99, 109, 101, 46, 99, 111, 109>> \* "Ann@Acme.com"

\* the booking form's fields, by description
Descriptions ==
  [ P1Ann |-> [appointmentType |-> Phase1Appointment, firstName |-> <<97, 110, 110>>,
               lastName |-> <<76, 69, 69>>, email |-> AnnEmail],        \* ann LEE
    P2Ann |-> [appointmentType |-> Phase2Appointment, firstName |-> <<97, 110, 110>>,
               lastName |-> <<76, 69, 69>>, email |-> AnnEmailMixed],   \* ann LEE
    P1Bob |-> [appointmentType |-> Phase1Appointment, firstName |-> <<98, 111, 98>>,
               lastName |-> <<114, 97, 121>>, email |-> AnnEmail],      \* bob ray, shared inbox
    P2Bob |-> [appointmentType |-> Phase2Appointment, firstName |-> <<98, 111, 98>>,
               lastName |-> <<114, 97, 121>>, email |-> AnnEmail] ]     \* bob ray, shared inbox

DescriptionIds == DOMAIN Descriptions

AnnEmailCon == <<97, 110, 110, 64, 97, 99, 109, 101, 46, 99, 111, 110>>   \* "ann@acme.con"

\* bookings of other kinds: an appointment type naming both phases, one naming
\* neither, forms with a required field left empty, and Ann Lee's Phase 1
\* form with another address
OtherDescriptions ==
  [ Both |-> [appointmentType |-> Phase1Appointment \o <<32, 43, 32>> \o Phase2Appointment,
              firstName |-> <<97, 110, 110>>, lastName |-> <<76, 69, 69>>, email |-> AnnEmail],
    Other |-> [appointmentType |-> <<67, 111, 97, 99, 104, 105, 110, 103>>,   \* "Coaching"
               firstName |-> <<97, 110, 110>>, lastName |-> <<76, 69, 69>>, email |-> AnnEmail],
    P1NoEmail |-> [appointmentType |-> Phase1Appointment, firstName |-> <<97, 110, 110>>,
                   lastName |-> <<76, 69, 69>>, email |-> <<>>],
    P1NoAt |-> [appointmentType |-> Phase1Appointment, firstName |-> <<97, 110, 110>>,
                lastName |-> <<76, 69, 69>>,
                email |-> <<97, 110, 110, 46, 97, 99, 109, 101, 46, 99, 111, 109>>],
                                                                        \* "ann.acme.com"
    P2NoName |-> [appointmentType |-> Phase2Appointment, firstName |-> <<>>,
                  lastName |-> <<76, 69, 69>>, email |-> AnnEmail],
    P1AnnCon |-> [appointmentType |-> Phase1Appointment, firstName |-> <<97, 110, 110>>,
                  lastName |-> <<76, 69, 69>>, email |-> AnnEmailCon] ]

AllDescriptions == Descriptions @@ OtherDescriptions

Locations ==
  { <<104, 116, 116, 112, 115, 58, 47, 47, 122, 111, 111, 109, 47, 120>>,   \* "https://zoom/x"
    <<104, 116, 116, 112, 115, 58, 47, 47, 122, 111, 111, 109, 47, 121>> }  \* "https://zoom/y"

FirstLocation == <<104, 116, 116, 112, 115, 58, 47, 47, 122, 111, 111, 109, 47, 120>>

\* the text of a description: "Label: value" lines
descriptionText(d) ==
  <<65, 112, 112, 111, 105, 110, 116, 109, 101, 110, 116, 32, 84, 121, 112, 101, 32, 58, 32>>
    \o d.appointmentType \o <<10>>                                  \* "Appointment Type : "
  \o <<70, 105, 114, 115, 116, 32, 110, 97, 109, 101, 58, 32>> \o d.firstName \o <<10>>
                                                                    \* "First name: "
  \o <<76, 97, 115, 116, 32, 110, 97, 109, 101, 58, 32>> \o d.lastName \o <<10>>
                                                                    \* "Last name: "
  \o <<69, 109, 97, 105, 108, 58, 32>> \o d.email \o <<10>>         \* "Email: "

\* event.getDescription(), by description id
DescriptionTexts == [k \in DOMAIN AllDescriptions |-> descriptionText(AllDescriptions[k])]

getDescription(event) == DescriptionTexts[event.description]

\* ------------------------------------------------------------------------
\* ProcessedEventsTracker.generateFingerprint
\* A 32-bit integer is kept as its two 16-bit halves <<high, low>>.
\* ------------------------------------------------------------------------
\* the value of a one-element set; binding a name by x \in {e} computes e once
Only(S) == CHOOSE x \in S : TRUE

\* hash << 5
shiftLeft5(h) == <<(32 * h[1] + ((32 * h[2]) \div 65536)) % 65536, (32 * h[2]) % 65536>>

\* hash = ((hash << 5) - hash) + char; hash = hash & hash
hashStep(h, char) ==
  Only({ Only({ <<(shifted[1] - h[1] + (low \div 65536) + 131071) % 65536, low % 65536>>
                : low \in {shifted[2] - h[2] + char + 65536} })
         : shifted \in {shiftLeft5(h)} })

\* the loop over details[lo..hi], left to right, starting from hash h (the
\* range is split in two so that the evaluation stays shallow)
RECURSIVE hashRange(_, _, _, _)
hashRange(details, lo, hi, h) ==
  IF lo > hi THEN h
  ELSE IF lo = hi THEN hashStep(h, details[lo])
  ELSE Only({ Only({ hashRange(details, mid + 1, hi, left) :
                       left \in {hashRange(details, lo, mid, h)} })
              : mid \in {(lo + hi) \div 2} })

\* variant: the 32 bits read as an unsigned value
absInt32_Unsigned(h) == h

\* Math.abs of the signed 32-bit value, as halves of an unsigned value
absInt32(h) ==
  IF h[1] < 32768 THEN h
  ELSE IF h[2] = 0 THEN <<65536 - h[1], 0>>
  ELSE <<65535 - h[1], 65536 - h[2]>>

hexDigit(n) == IF n < 10 THEN 48 + n ELSE 87 + n

RECURSIVE hex(_)
hex(n) == IF n < 16 THEN <<hexDigit(n)>> ELSE hex(n \div 16) \o <<hexDigit(n % 16)>>

\* Number.toString(16) of the unsigned value with halves h
toString16(h) ==
  IF h[1] = 0 THEN hex(h[2])
  ELSE hex(h[1]) \o SubSeq(<<48, 48, 48>> \o hex(h[2]), Len(hex(h[2])), Len(hex(h[2])) + 3)

\* variant: the whole description goes into the hash
fingerprintDetails_WholeDescription(event) ==
  join(<< toISOString(event.start), toISOString(event.end), event.location,
          getDescription(event) >>, <<124>>)

fingerprintDetails(event) ==
  join(<< toISOString(event.start), toISOString(event.end), event.location,
          substring0(getDescription(event), 100) >>, <<124>>)

computeFingerprint(event) ==
  Only({ Only({ toString16(hash) : hash \in {absInt32(hashRange(details, 1, Len(details), <<0, 0>>))} })
         : details \in {fingerprintDetails(event)} })

\* the fingerprints of the events the calendar can hold, computed once
fingerprintKey(event) == <<event.start, event.end, event.location, event.description>>

EventTimes == {t * TickHours + LeadHours + 24 * k : t \in 0..MaxTicks, k \in 0..MaxEdits}

FingerprintTable ==
  [key \in {<<t, t + 1, l, d>> : t \in EventTimes, l \in Locations, d \in DescriptionIds} |->
     computeFingerprint([start |-> key[1], end |-> key[2], location |-> key[3],
                         description |-> key[4]])]

generateFingerprint(event) ==
  IF fingerprintKey(event) \in DOMAIN FingerprintTable
  THEN FingerprintTable[fingerprintKey(event)]
  ELSE computeFingerprint(event)

\* ------------------------------------------------------------------------
\* CalendarUtils
\* ------------------------------------------------------------------------
capitalizeWord(word) ==
  IF word = <<>> THEN <<>> ELSE <<toUpperChar(word[1])>> \o toLowerCase(Tail(word))

\* .replace(/([a-z])([A-Z])/g, '$1 $2')
RECURSIVE camelCaseToWords(_)
camelCaseToWords(s) ==
  IF Len(s) < 2 THEN s
  ELSE IF s[1] >= 97 /\ s[1] <= 122 /\ s[2] >= 65 /\ s[2] <= 90
       THEN <<s[1], 32>> \o camelCaseToWords(Tail(s))
       ELSE <<s[1]>> \o camelCaseToWords(Tail(s))

formatDomainAsCompanyName(domain) ==
  IF domain = <<>> THEN <<>>
  ELSE LET dot == indexOfChar(domain, 46)
           companyPart == IF dot = 0 THEN domain ELSE SubSeq(domain, 1, dot - 1)
           spaced == camelCaseToWords(companyPart)
           words == [i \in 1..Len(spaced) |-> IF spaced[i] \in {45, 95} THEN 32 ELSE spaced[i]]
       IN [i \in 1..Len(words) |->
             IF i = 1 \/ words[i - 1] = 32 THEN toUpperChar(words[i]) ELSE toLowerChar(words[i])]

\* email.split('@')[1]
getCompanyFromEmail(email) ==
  IF email = <<>> THEN <<>>
  ELSE LET at == indexOfChar(email, 64)
           rest == IF at = 0 THEN <<>> ELSE SubSeq(email, at + 1, Len(email))
           at2 == indexOfChar(rest, 64)
       IN formatDomainAsCompanyName(IF at2 = 0 THEN rest ELSE SubSeq(rest, 1, at2 - 1))

\* the value of a "Label: value" line of the description, trimmed
extractField(description, label) == trim(description[label])

\* the address in the "Email:" line: local part, "@", domain with a dot
extractFirstEmail(description) ==
  LET emailField == extractField(description, "email")
      at == indexOfChar(emailField, 64)
  IN IF at > 1 /\ indexOfChar(SubSeq(emailField, at + 1, Len(emailField)), 46) > 1
        /\ emailField[Len(emailField)] # 46
     THEN emailField ELSE <<>>

includesAny(text, identifiers) == \E identifier \in identifiers : includes(text, identifier)

Phase1Descriptions == {k \in DOMAIN AllDescriptions : includesAny(DescriptionTexts[k], PHASE1_identifiers)}

Phase2Descriptions == {k \in DOMAIN AllDescriptions : includesAny(DescriptionTexts[k], PHASE2_identifiers)}

isPhase1Event(event) == event.description \in Phase1Descriptions

isPhase2Event(event) == event.description \in Phase2Descriptions

extractEventData(event) ==
  Only({ [ threw |-> (firstName = <<>> \/ lastName = <<>> \/ email = <<>>),
           eventId |-> event.id,
           firstName |-> firstName,
           lastName |-> lastName,
           fullName |-> firstName \o <<32>> \o lastName,
           email |-> email,
           companyName |-> getCompanyFromEmail(email),
           zoomLink |-> event.location,
           formattedDate |-> getFormattedDate(event.start),
           formattedTime |-> getFormattedTime(event.start) ]
         : firstName \in {capitalizeWord(extractField(AllDescriptions[event.description], "firstName"))},
           lastName \in {capitalizeWord(extractField(AllDescriptions[event.description], "lastName"))},
           email \in {extractFirstEmail(AllDescriptions[event.description])} })

\* the events of the monitoring window, in the order the calendars list them
EventOrder == <<"e1", "e2">>

Absent == [absent |-> TRUE]

inWindow(event, now) ==
  /\ event.start < now + lookaheadHours
  /\ event.end > now - lookbackHours

\* the events of the primary calendar, then those of the secondary calendar
\* of CONFIG.CALENDARS.secondary: an event the secondary calendar shows as
\* well is listed twice, under the same id
getNewCalendarEvents(calendar, now) ==
  LET primaryEvents ==
        SelectSeq(EventOrder, LAMBDA id : calendar[id] # Absent /\ inWindow(calendar[id], now))
      secondaryEvents ==
        SelectSeq(EventOrder, LAMBDA id : /\ calendar[id] # Absent
                                          /\ inWindow(calendar[id], now)
                                          /\ calendar[id].secondary)
  IN [i \in 1..(Len(primaryEvents) + Len(secondaryEvents)) |->
        calendar[(primaryEvents \o secondaryEvents)[i]]]

\* ------------------------------------------------------------------------
\* ProcessedEventsTracker.  The tracking sheet is the sequence of its rows;
\* row 1 is the header, so a sheet row number is an index of the sequence
\* and data[i] of the JavaScript is sheet[i + 1].
\* ------------------------------------------------------------------------
HeaderRow ==
  [ eventId |-> "Event ID",
    fingerprint |-> <<70, 105, 110, 103, 101, 114, 112, 114, 105, 110, 116>>,
    phase |-> "Phase",
    leaderName |-> <<76, 101, 97, 100, 101, 114, 32, 78, 97, 109, 101>>,
    company |-> <<67, 111, 109, 112, 97, 110, 121>>,
    eventDate |-> <<69, 118, 101, 110, 116, 32, 68, 97, 116, 101>>,
    processedAt |-> <<80, 114, 111, 99, 101, 115, 115, 101, 100, 32, 65, 116>>,
    lastUpdated |-> <<76, 97, 115, 116, 32, 85, 112, 100, 97, 116, 101, 100>>,
    email |-> <<76, 101, 97, 100, 101, 114, 32, 69, 109, 97, 105, 108>>,
    buildFileId |-> <<66, 117, 105, 108, 100, 32, 70, 105, 108, 101, 32, 73, 68>>,
    leaderFolderId |-> <<76, 101, 97, 100, 101, 114, 32, 70, 111, 108, 100, 101, 114, 32,
                         73, 68>> ]

BlankRow ==
  [ eventId |-> "", fingerprint |-> <<>>, phase |-> "", leaderName |-> <<>>,
    company |-> <<>>, eventDate |-> <<>>, processedAt |-> <<>>, lastUpdated |-> <<>>,
    email |-> <<>>, buildFileId |-> <<>>, leaderFolderId |-> <<>> ]

NotTracked == [processed |-> FALSE, needsUpdate |-> FALSE, rowIndex |-> -1]

\* getSheetByName returned null: the tracking spreadsheet has no tab of the
\* configured name (a tab that exists always holds at least its header row)
NoSheet == <<>>

\* getTrackingSpreadsheet looks the spreadsheet up in the Strong Teams folder
\* (CONFIG.PROCESSED_EVENTS.spreadsheetId is null) and opens it; nothing
\* catches the exception Drive raises when access is denied, so it reaches
\* the caller of the tracker function
getTrackingSpreadsheetThrows(accessible) == ~accessible

\* the loop "for (let i = 1; i < data.length; i++)" from index i
\* variant: reports the array index of the matching row instead of the sheet row
RECURSIVE isEventProcessedLoop_ArrayIndex(_, _, _, _)
isEventProcessedLoop_ArrayIndex(data, i, eventId, currentFingerprint) ==
  IF i >= Len(data) THEN NotTracked
  ELSE IF data[i + 1].eventId = eventId
       THEN IF data[i + 1].fingerprint = currentFingerprint
            THEN [processed |-> TRUE, needsUpdate |-> FALSE, rowIndex |-> i]
            ELSE [processed |-> FALSE, needsUpdate |-> TRUE, rowIndex |-> i]
       ELSE isEventProcessedLoop_ArrayIndex(data, i + 1, eventId, currentFingerprint)

\* variant: a row with the event's id always asks for an update
RECURSIVE isEventProcessedLoop_AlwaysStale(_, _, _, _)
isEventProcessedLoop_AlwaysStale(data, i, eventId, currentFingerprint) ==
  IF i >= Len(data) THEN NotTracked
  ELSE IF data[i + 1].eventId = eventId
       THEN [processed |-> FALSE, needsUpdate |-> TRUE, rowIndex |-> i + 1]
       ELSE isEventProcessedLoop_AlwaysStale(data, i + 1, eventId, currentFingerprint)

RECURSIVE isEventProcessedLoop(_, _, _, _)
isEventProcessedLoop(data, i, eventId, currentFingerprint) ==
  IF i >= Len(data) THEN NotTracked
  ELSE IF data[i + 1].eventId = eventId
       THEN IF data[i + 1].fingerprint = currentFingerprint
            THEN [processed |-> TRUE, needsUpdate |-> FALSE, rowIndex |-> i + 1]
            ELSE [processed |-> FALSE, needsUpdate |-> TRUE, rowIndex |-> i + 1]
       ELSE isEventProcessedLoop(data, i + 1, eventId, currentFingerprint)

\* variant: reports processed when any row, not the first one with the id,
\* holds the current fingerprint
isEventProcessed_AnyRow(isEnabled, data, event) ==
  IF ~isEnabled THEN NotTracked
  ELSE LET hits == {i \in 2..Len(data) :
                      /\ data[i].eventId = event.id
                      /\ data[i].fingerprint = generateFingerprint(event)}
       IN IF hits # {}
          THEN [ processed |-> TRUE, needsUpdate |-> FALSE,
                 rowIndex |-> CHOOSE i \in hits : \A j \in hits : i <= j ]
          ELSE isEventProcessedLoop(data, 1, event.id, generateFingerprint(event))

isEventProcessed(isEnabled, data, event) ==
  IF ~isEnabled THEN NotTracked
  ELSE IF data = NoSheet THEN NotTracked
  ELSE isEventProcessedLoop(data, 1, event.id, generateFingerprint(event))

\* variant: writes one row below the requested row
setRowValues_NextRow(data, row, rowData) ==
  [i \in 1..(IF row + 1 > Len(data) THEN row + 1 ELSE Len(data)) |->
     IF i = row + 1 THEN rowData ELSE IF i <= Len(data) THEN data[i] ELSE BlankRow]

\* sheet.getRange(row, 1, 1, n).setValues([rowData])
setRowValues(data, row, rowData) ==
  [i \in 1..(IF row > Len(data) THEN row ELSE Len(data)) |->
     IF i = row THEN rowData ELSE IF i <= Len(data) THEN data[i] ELSE BlankRow]

\* variant: the row is looked up by event id, the row index given is ignored
markEventProcessed_ByEventId(isEnabled, data, event, phase, eventData, existingRowIndex, now) ==
  IF ~isEnabled THEN data
  ELSE LET rowData ==
             [ eventId |-> event.id,
               fingerprint |-> generateFingerprint(event),
               phase |-> phase,
               leaderName |-> eventData.fullName,
               company |-> eventData.companyName,
               eventDate |-> toISOString(event.start),
               processedAt |-> toISOString(now),
               lastUpdated |-> toISOString(now),
               email |-> eventData.email,
               buildFileId |-> eventData.buildFileId,
               leaderFolderId |-> eventData.leaderFolderId ]
           found == {i \in 2..Len(data) : data[i].eventId = event.id}
       IN IF found # {}
          THEN setRowValues(data, CHOOSE i \in found : \A j \in found : i <= j, rowData)
          ELSE Append(data, rowData)

\* variant: a new record is written over the last data row
markEventProcessed_OverLastRow(isEnabled, data, event, phase, eventData, existingRowIndex, now) ==
  IF ~isEnabled THEN data
  ELSE LET rowData ==
             [ eventId |-> event.id,
               fingerprint |-> generateFingerprint(event),
               phase |-> phase,
               leaderName |-> eventData.fullName,
               company |-> eventData.companyName,
               eventDate |-> toISOString(event.start),
               processedAt |-> toISOString(now),
               lastUpdated |-> toISOString(now),
               email |-> eventData.email,
               buildFileId |-> eventData.buildFileId,
               leaderFolderId |-> eventData.leaderFolderId ]
       IN IF existingRowIndex > 0
          THEN setRowValues(data, existingRowIndex, rowData)
          ELSE IF Len(data) > 1 THEN setRowValues(data, Len(data), rowData)
          ELSE Append(data, rowData)

\* variant: the fingerprint and event-date columns are swapped in the row written
markEventProcessed_SwappedColumns(isEnabled, data, event, phase, eventData, existingRowIndex, now) ==
  IF ~isEnabled THEN data
  ELSE LET rowData ==
             [ eventId |-> event.id,
               fingerprint |-> toISOString(event.start),
               phase |-> phase,
               leaderName |-> eventData.fullName,
               company |-> eventData.companyName,
               eventDate |-> generateFingerprint(event),
               processedAt |-> toISOString(now),
               lastUpdated |-> toISOString(now),
               email |-> eventData.email,
               buildFileId |-> eventData.buildFileId,
               leaderFolderId |-> eventData.leaderFolderId ]
       IN IF existingRowIndex > 0
          THEN setRowValues(data, existingRowIndex, rowData)
          ELSE Append(data, rowData)

\* markEventProcessed does not test the sheet: sheet.appendRow / sheet.getRange
\* on null raises a TypeError to the caller
markEventProcessedThrows(isEnabled, data) == isEnabled /\ data = NoSheet

markEventProcessed(isEnabled, data, event, phase, eventData, existingRowIndex, now) ==
  IF ~isEnabled THEN data
  ELSE LET rowData ==
             [ eventId |-> event.id,
               fingerprint |-> generateFingerprint(event),
               phase |-> phase,
               leaderName |-> eventData.fullName,
               company |-> eventData.companyName,
               eventDate |-> toISOString(event.start),
               processedAt |-> toISOString(now),
               lastUpdated |-> toISOString(now),
               email |-> eventData.email,
               buildFileId |-> eventData.buildFileId,
               leaderFolderId |-> eventData.leaderFolderId ]
       IN IF existingRowIndex > 0
          THEN setRowValues(data, existingRowIndex, rowData)
          ELSE Append(data, rowData)

Null == [isNull |-> TRUE]

emailMatch(data, i) ==
  [ rowIndex |-> i,
    buildFileId |-> data[i + 1].buildFileId,
    leaderFolderId |-> data[i + 1].leaderFolderId,
    leaderName |-> data[i + 1].leaderName,
    company |-> data[i + 1].company ]

\* STEP 1: the rows whose email equals the normalized email and that hold a
\* Build File id, in sheet order
RECURSIVE emailMatches_CaseSensitive(_, _, _)
emailMatches_CaseSensitive(data, i, normalizedEmail) ==
  IF i >= Len(data) THEN <<>>
  ELSE IF trim(data[i + 1].email) = normalizedEmail /\ data[i + 1].buildFileId # <<>>
       THEN <<emailMatch(data, i)>> \o emailMatches_CaseSensitive(data, i + 1, normalizedEmail)
       ELSE emailMatches_CaseSensitive(data, i + 1, normalizedEmail)

\* variant: rows without a Build File id are candidates too
RECURSIVE emailMatches_AnyFileId(_, _, _)
emailMatches_AnyFileId(data, i, normalizedEmail) ==
  IF i >= Len(data) THEN <<>>
  ELSE IF trim(toLowerCase(data[i + 1].email)) = normalizedEmail
       THEN <<emailMatch(data, i)>> \o emailMatches_AnyFileId(data, i + 1, normalizedEmail)
       ELSE emailMatches_AnyFileId(data, i + 1, normalizedEmail)

RECURSIVE emailMatches(_, _, _)
emailMatches(data, i, normalizedEmail) ==
  IF i >= Len(data) THEN <<>>
  ELSE LET rest == emailMatches(data, i + 1, normalizedEmail)
       IN IF trim(toLowerCase(data[i + 1].email)) = normalizedEmail
             /\ data[i + 1].buildFileId # <<>>
          THEN <<emailMatch(data, i)>> \o rest
          ELSE rest

\* variant: the leader name is not used to choose among several email matches
findByEmail_IgnoresName(data, email, leaderName) ==
  IF email = <<>> THEN Null
  ELSE LET matches == emailMatches(data, 1, trim(toLowerCase(email)))
       IN IF Len(matches) = 0 THEN Null ELSE matches[1]

\* variant: a name that matches none of several email matches yields no result
findByEmail_NameRequired(data, email, leaderName) ==
  IF email = <<>> THEN Null
  ELSE LET matches == emailMatches(data, 1, trim(toLowerCase(email)))
           nameMatches == SelectSeq(matches,
                            LAMBDA m : trim(toLowerCase(m.leaderName)) = trim(toLowerCase(leaderName)))
       IN IF Len(matches) = 0 THEN Null
          ELSE IF Len(matches) = 1 \/ leaderName = <<>> THEN matches[1]
          ELSE IF Len(nameMatches) > 0 THEN nameMatches[1] ELSE Null

findByEmail(data, email, leaderName) ==
  IF email = <<>> THEN Null
  ELSE IF data = NoSheet THEN Null
  ELSE LET normalizedEmail == trim(toLowerCase(email))
           normalizedName == IF leaderName # <<>> THEN trim(toLowerCase(leaderName)) ELSE <<>>
           matches == emailMatches(data, 1, normalizedEmail)
           nameMatches == SelectSeq(matches,
                            LAMBDA m : trim(toLowerCase(m.leaderName)) = normalizedName)
       IN IF Len(matches) = 0 THEN Null
          ELSE IF Len(matches) = 1 THEN matches[1]
          ELSE IF normalizedName # <<>>
               THEN IF Len(nameMatches) = 1 THEN nameMatches[1]
                    ELSE IF Len(nameMatches) > 1 THEN nameMatches[1]
                    ELSE matches[1]
               ELSE matches[1]

\* deleteRow(row)
deleteRow(data, row) ==
  [i \in 1..(Len(data) - 1) |-> IF i < row THEN data[i] ELSE data[i + 1]]

\* the loop "for (let i = data.length - 1; i >= 1; i--)" from index i; data is
\* the snapshot read before the loop, sheet the rows as deleted so far
\* variant: a row dated exactly at the cutoff is deleted too
RECURSIVE cleanupLoop_Inclusive(_, _, _, _)
cleanupLoop_Inclusive(data, sheetRows, i, cutoffDate) ==
  IF i < 1 THEN sheetRows
  ELSE IF data[i + 1].eventDate # <<>> /\ parseDate(data[i + 1].eventDate) <= cutoffDate
       THEN cleanupLoop_Inclusive(data, deleteRow(sheetRows, i + 1), i - 1, cutoffDate)
       ELSE cleanupLoop_Inclusive(data, sheetRows, i - 1, cutoffDate)

RECURSIVE cleanupLoop(_, _, _, _)
cleanupLoop(data, sheetRows, i, cutoffDate) ==
  IF i < 1 THEN sheetRows
  ELSE IF data[i + 1].eventDate # <<>> /\ parseDate(data[i + 1].eventDate) < cutoffDate
       THEN cleanupLoop(data, deleteRow(sheetRows, i + 1), i - 1, cutoffDate)
       ELSE cleanupLoop(data, sheetRows, i - 1, cutoffDate)

cleanupOldRecords(data, now) ==
  IF data = NoSheet THEN data
  ELSE cleanupLoop(data, data, Len(data) - 1, now - retentionDays * 24)

\* sheet.deleteRows(2, sheet.getLastRow() - 1)
resetEventTracking(data) ==
  IF data # NoSheet /\ Len(data) > 1 THEN <<data[1]>> ELSE data

\* the counters of getStats over the data rows
getStats(data) ==
  IF data = NoSheet
  THEN [total |-> 0, phase1 |-> 0, phase2 |-> 0, withEmail |-> 0, withFileId |-> 0]
  ELSE [ total |-> Len(data) - 1,
         phase1 |-> Cardinality({i \in 2..Len(data) : data[i].phase = "Phase 1"}),
         phase2 |-> Cardinality({i \in 2..Len(data) : data[i].phase = "Phase 2"}),
         withEmail |-> Cardinality({i \in 2..Len(data) : data[i].email # <<>>}),
         withFileId |-> Cardinality({i \in 2..Len(data) : data[i].buildFileId # <<>>}) ]

\* ------------------------------------------------------------------------
\* Drive: folders are paths below the Strong Teams folder; files is the
\* sequence of the Build Files created so far.  A Build File holds its two
\* settings sheets, each a column B indexed by row number.
\* ------------------------------------------------------------------------
SettingsRows ==
  { PHASE1_rows_date, PHASE1_rows_time, PHASE1_rows_name, PHASE1_rows_zoomLink,
    PHASE2_rows_date, PHASE2_rows_time, PHASE2_rows_zoomLink,
    phase1LinkRow, phase1LoginCodeRow, phase2LoginCodeRow }

\* the template's settings sheets: every data cell empty
TemplateSheet == [r \in SettingsRows |-> <<>>]

\* "B<n>": the id Drive gives the n-th file
fileId(n) == <<66>> \o decimal(n)

\* "F/<company>/<leader>": the id Drive gives a folder
folderId(path) == <<70>> \o join([i \in 1..Len(path) |-> <<47>> \o path[i]], <<>>)

buildFileNameOf(fullName) ==
  fullName \o <<32, 45, 32, 83, 116, 114, 111, 110, 103, 32, 84, 101, 97, 109, 115, 32, 66,
                117, 105, 108, 100, 32, 70, 105, 108, 101>>   \* " - Strong Teams Build File"

\* FolderUtils.getOrCreateFolder
getOrCreateFolder(folderSet, parentFolder, folderName) ==
  folderSet \cup {Append(parentFolder, folderName)}

\* FolderUtils.createLeaderFolderStructure
createLeaderFolderStructure(folderSet, eventData) ==
  LET companyFolder == <<eventData.companyName>>
      withCompany == getOrCreateFolder(folderSet, <<>>, eventData.companyName)
  IN [ folders |-> getOrCreateFolder(withCompany, companyFolder, eventData.fullName),
       leaderFolder |-> Append(companyFolder, eventData.fullName) ]

\* variant: reports no file whatever the folder holds
findFileInFolder_NeverFound(fileSeq, folder, fileName) == 0

\* FolderUtils.findFileInFolder: index of the file, 0 for null
findFileInFolder(fileSeq, folder, fileName) ==
  LET found == {f \in 1..Len(fileSeq) :
                  fileSeq[f].parent = folder /\ fileSeq[f].name = fileName /\ ~fileSeq[f].trashed}
  IN IF found = {} THEN 0 ELSE CHOOSE f \in found : \A g \in found : f <= g

\* BuildFileManager.createNewBuildFile: templateFile.makeCopy(fileName, folder)
createNewBuildFile(fileSeq, fileName, destinationFolder) ==
  Append(fileSeq, [ id |-> fileId(Len(fileSeq) + 1), name |-> fileName,
                    parent |-> destinationFolder, trashed |-> FALSE,
                    phase1 |-> TemplateSheet, phase2 |-> TemplateSheet ])

\* BuildFileManager.updatePhase1Settings
updatePhase1Settings(fileSeq, f, eventData) ==
  [fileSeq EXCEPT ![f].phase1 =
     [@ EXCEPT ![PHASE1_rows_date] = eventData.formattedDate,
               ![PHASE1_rows_time] = eventData.formattedTime,
               ![PHASE1_rows_name] = eventData.fullName,
               ![PHASE1_rows_zoomLink] = eventData.zoomLink]]

\* variant: the response link goes to the Phase 2 sheet instead of the code
copyLoginCodeToPhase2_WritesLink(fileSeq, f, loginCode, copyOk) ==
  IF copyOk
  THEN [fileSeq EXCEPT ![f].phase2 = [@ EXCEPT ![phase2LoginCodeRow] = <<47>> \o loginCode]]
  ELSE fileSeq

\* BuildFileManager.copyLoginCodeToPhase2: a failure of the write is caught
\* and logged, never rethrown
copyLoginCodeToPhase2(fileSeq, f, loginCode, copyOk) ==
  IF copyOk
  THEN [fileSeq EXCEPT ![f].phase2 = [@ EXCEPT ![phase2LoginCodeRow] = loginCode]]
  ELSE fileSeq

\* IDSUtils.generateResponseLink: the n-th call to the link API either fails
\* or mints the login code "L<n>"
generateResponseLink(n, apiOk) ==
  IF apiOk
  THEN [ threw |-> FALSE, loginCode |-> <<76>> \o decimal(n),
         responseLink |-> <<47>> \o <<76>> \o decimal(n) ]
  ELSE [ threw |-> TRUE, loginCode |-> <<>>, responseLink |-> <<>> ]

\* variant: a failed link API call is swallowed instead of rethrown
updateResponseLink_Swallowed(fileSeq, f, result, env) ==
  IF result.threw THEN [threw |-> FALSE, files |-> fileSeq]
  ELSE LET withCode ==
             [fileSeq EXCEPT ![f].phase1 = [@ EXCEPT ![phase1LoginCodeRow] = result.loginCode]]
       IN [ threw |-> FALSE,
            files |-> copyLoginCodeToPhase2(withCode, f, result.loginCode, env.copyOk) ]

\* variant: the full response URL is stored whatever the switch says
updateResponseLink_AlwaysStoresUrl(fileSeq, f, result, env) ==
  IF result.threw THEN [threw |-> TRUE, files |-> fileSeq]
  ELSE LET withLink ==
             [fileSeq EXCEPT ![f].phase1 = [@ EXCEPT ![phase1LinkRow] = result.responseLink]]
           withCode ==
             [withLink EXCEPT ![f].phase1 = [@ EXCEPT ![phase1LoginCodeRow] = result.loginCode]]
       IN [ threw |-> FALSE,
            files |-> copyLoginCodeToPhase2(withCode, f, result.loginCode, env.copyOk) ]

\* BuildFileManager.updateResponseLink; result is the reply of the link API,
\* env holds the CONFIG.IDS_API.storeFullUrlInRow4 switch of the deployment
\* and the outcome of the copy to the Phase 2 sheet
updateResponseLink(fileSeq, f, result, env) ==
  IF result.threw THEN [threw |-> TRUE, files |-> fileSeq]
  ELSE LET withLink ==
             IF env.storeFullUrlInRow4
             THEN [fileSeq EXCEPT ![f].phase1 = [@ EXCEPT ![phase1LinkRow] = result.responseLink]]
             ELSE fileSeq
           withCode ==
             [withLink EXCEPT ![f].phase1 = [@ EXCEPT ![phase1LoginCodeRow] = result.loginCode]]
       IN [ threw |-> FALSE,
            files |-> copyLoginCodeToPhase2(withCode, f, result.loginCode, env.copyOk) ]

\* variant: an existing Build File gets a fresh response link as well
processLeaderBuildFile_Relinks(fileSeq, calls, eventData, leaderFolder, env) ==
  LET buildFileName == buildFileNameOf(eventData.fullName)
      existing == findFileInFolder(fileSeq, leaderFolder, buildFileName)
      base == IF existing # 0 THEN fileSeq
              ELSE createNewBuildFile(fileSeq, buildFileName, leaderFolder)
      f == IF existing # 0 THEN existing ELSE Len(base)
      populated == updatePhase1Settings(base, f, eventData)
      linked == updateResponseLink(populated, f, generateResponseLink(calls + 1, env.apiOk),
                                  env)
  IN [ threw |-> linked.threw, files |-> linked.files,
       idsCalls |-> calls + 1, buildFile |-> f, created |-> existing = 0 ]

\* BuildFileManager.processLeaderBuildFile
processLeaderBuildFile(fileSeq, calls, eventData, leaderFolder, env) ==
  Only({ IF existing # 0
         THEN [ threw |-> FALSE, files |-> updatePhase1Settings(fileSeq, existing, eventData),
                idsCalls |-> calls, buildFile |-> existing, created |-> FALSE ]
         ELSE Only({ [ threw |-> linked.threw, files |-> linked.files,
                       idsCalls |-> calls + 1, buildFile |-> Len(linked.files), created |-> TRUE ]
                     : linked \in
                         { updateResponseLink(
                             updatePhase1Settings(
                               createNewBuildFile(fileSeq, buildFileNameOf(eventData.fullName),
                                                  leaderFolder),
                               Len(fileSeq) + 1, eventData),
                             Len(fileSeq) + 1, generateResponseLink(calls + 1, env.apiOk),
                             env) } })
         : existing \in
             {findFileInFolder(fileSeq, leaderFolder, buildFileNameOf(eventData.fullName))} })

\* BuildFileManager.validatePhase1Success: TRUE when the validation throws
validatePhase1Success(fileSeq, f) ==
  \/ fileSeq[f].phase1[phase1LoginCodeRow] = <<>>
  \/ fileSeq[f].phase1[PHASE1_rows_date] = <<>>
  \/ fileSeq[f].phase1[PHASE1_rows_time] = <<>>
  \/ fileSeq[f].phase1[PHASE1_rows_name] = <<>>
  \/ fileSeq[f].phase1[PHASE1_rows_zoomLink] = <<>>

\* variant: date and time go to the Phase 1 sheet as well
updatePhase2Settings_WritesPhase1(fileSeq, f, eventData) ==
  [fileSeq EXCEPT ![f].phase1 = [@ EXCEPT ![PHASE1_rows_date] = eventData.formattedDate,
                                          ![PHASE1_rows_time] = eventData.formattedTime],
                  ![f].phase2 =
                     [@ EXCEPT ![PHASE2_rows_date] = eventData.formattedDate,
                               ![PHASE2_rows_time] = eventData.formattedTime,
                               ![PHASE2_rows_zoomLink] = eventData.zoomLink,
                               ![phase2LoginCodeRow] =
                                  IF fileSeq[f].phase1[phase1LoginCodeRow] # <<>>
                                  THEN fileSeq[f].phase1[phase1LoginCodeRow] ELSE @]]

\* BuildFileManager.updatePhase2Settings
updatePhase2Settings(fileSeq, f, eventData) ==
  LET written ==
        [fileSeq EXCEPT ![f].phase2 =
           [@ EXCEPT ![PHASE2_rows_date] = eventData.formattedDate,
                     ![PHASE2_rows_time] = eventData.formattedTime,
                     ![PHASE2_rows_zoomLink] = eventData.zoomLink]]
      loginCode == fileSeq[f].phase1[phase1LoginCodeRow]
  IN IF loginCode # <<>>
     THEN [written EXCEPT ![f].phase2 = [@ EXCEPT ![phase2LoginCodeRow] = loginCode]]
     ELSE written

\* ProcessedEventsTracker.getBuildFileById: index of the file, 0 for null
getBuildFileById(fileSeq, id) ==
  IF id = <<>> THEN 0
  ELSE IF \E f \in 1..Len(fileSeq) : fileSeq[f].id = id /\ ~fileSeq[f].trashed
       THEN CHOOSE f \in 1..Len(fileSeq) : fileSeq[f].id = id /\ ~fileSeq[f].trashed
       ELSE 0

\* findBuildFileByFolderSearch: company folder, leader folder, named file
findBuildFileByFolderSearch(folderSet, fileSeq, eventData) ==
  IF <<eventData.companyName>> \notin folderSet THEN 0
  ELSE IF <<eventData.companyName, eventData.fullName>> \notin folderSet THEN 0
  ELSE findFileInFolder(fileSeq, <<eventData.companyName, eventData.fullName>>,
                        buildFileNameOf(eventData.fullName))

\* ------------------------------------------------------------------------
\* The two phase transitions
\* ------------------------------------------------------------------------
\* EmailUtils.sendSuccessEmail: TRUE when it throws; it returns at once when
\* success notifications are switched off
sendSuccessEmail(notify, mailOk) == notify /\ ~mailOk

\* env: the CONFIG.EMAIL.notifyOnSuccess switch and the outcomes of the
\* external calls made on the way (link API, login code copy, MailApp)
processPhase1Event(event, folderSet, fileSeq, calls, env) ==
  Only({ IF eventData.threw
         THEN [ threw |-> TRUE, eventData |-> eventData, folders |-> folderSet,
                files |-> fileSeq, idsCalls |-> calls, buildFileId |-> <<>>,
                leaderFolderId |-> <<>>, created |-> FALSE, mail |-> "none" ]
         ELSE Only({ Only({ [ threw |-> built.threw
                                          \/ sendSuccessEmail(env.notifyOnSuccess, env.mailOk),
                              mail |-> IF built.threw \/ ~env.notifyOnSuccess THEN "none"
                                       ELSE IF env.mailOk THEN "sent" ELSE "failed",
                              eventData |-> eventData,
                              folders |-> structure.folders, files |-> built.files,
                              idsCalls |-> built.idsCalls,
                              buildFileId |-> built.files[built.buildFile].id,
                              leaderFolderId |-> folderId(structure.leaderFolder),
                              created |-> built.created ]
                            : built \in { processLeaderBuildFile(fileSeq, calls, eventData,
                                            structure.leaderFolder, env) } })
                     : structure \in {createLeaderFolderStructure(folderSet, eventData)} })
         : eventData \in {extractEventData(event)} })

\* the Build File the tracker lookup by email yields, 0 when it yields none
lookupBuildFile(data, fileSeq, eventData) ==
  Only({ IF trackerResult # Null /\ trackerResult.buildFileId # <<>>
         THEN getBuildFileById(fileSeq, trackerResult.buildFileId) ELSE 0
         : trackerResult \in {findByEmail(data, eventData.email, eventData.fullName)} })

\* variant: an event whose Build File is found nowhere is passed over silently
processPhase2Event_SilentSkip(event, data, folderSet, fileSeq) ==
  LET eventData == extractEventData(event)
      byId == IF eventData.threw THEN 0 ELSE lookupBuildFile(data, fileSeq, eventData)
      buildFile == IF byId # 0 \/ eventData.threw THEN byId
                   ELSE findBuildFileByFolderSearch(folderSet, fileSeq, eventData)
  IN IF eventData.threw
     THEN [threw |-> TRUE, eventData |-> eventData, files |-> fileSeq, buildFile |-> 0]
     ELSE IF buildFile = 0
     THEN [threw |-> FALSE, eventData |-> eventData, files |-> fileSeq, buildFile |-> 0]
     ELSE [ threw |-> FALSE, eventData |-> eventData,
            files |-> updatePhase2Settings(fileSeq, buildFile, eventData),
            buildFile |-> buildFile ]

\* variant: no folder search when the tracker lookup yields no file
processPhase2Event_NoFallback(event, data, folderSet, fileSeq) ==
  LET eventData == extractEventData(event)
      byId == IF eventData.threw THEN 0 ELSE lookupBuildFile(data, fileSeq, eventData)
  IN IF eventData.threw \/ byId = 0
     THEN [threw |-> TRUE, eventData |-> eventData, files |-> fileSeq, buildFile |-> 0]
     ELSE [ threw |-> FALSE, eventData |-> eventData,
            files |-> updatePhase2Settings(fileSeq, byId, eventData), buildFile |-> byId ]

processPhase2Event(event, data, folderSet, fileSeq) ==
  Only({ IF eventData.threw
         THEN [threw |-> TRUE, eventData |-> eventData, files |-> fileSeq, buildFile |-> 0]
         ELSE Only({ Only({ IF buildFile = 0
                            THEN [ threw |-> TRUE, eventData |-> eventData, files |-> fileSeq,
                                   buildFile |-> 0 ]
                            ELSE [ threw |-> FALSE, eventData |-> eventData,
                                   files |-> updatePhase2Settings(fileSeq, buildFile, eventData),
                                   buildFile |-> buildFile ]
                            : buildFile \in
                                { IF byId # 0 THEN byId
                                  ELSE findBuildFileByFolderSearch(folderSet, fileSeq, eventData) } })
                     : byId \in {lookupBuildFile(data, fileSeq, eventData)} })
         : eventData \in {extractEventData(event)} })

\* ------------------------------------------------------------------------
\* State
\* ------------------------------------------------------------------------
VARIABLES
  config,     \* the CONFIG.EMAIL switches of the deployment
  calendar,   \* event id -> the event as the calendars hold it, or Absent
  now,        \* the clock, in hours
  sheet,      \* the tracking sheet: header row, then one row per record
  folders,    \* the folder paths that exist below the Strong Teams folder
  files,      \* the Build Files, in creation order
  idsCalls,   \* number of calls made to the link API
  run,        \* the running onCalendarTrigger: position, event list, counters
  last,       \* the outcome of the iteration of events.forEach just taken
  edits,      \* number of calendar changes made so far
  ticks,      \* number of clock advances made so far
  probe,      \* a tracker function's arguments and result (SpecFn)
  completed,  \* the ids of the events processed successfully since their
              \* fingerprint last changed and the ledger was last reset
  overlap     \* the invocations of onCalendarTrigger that run at the same
              \* time: each one's position and local variables (SpecOverlap)

vars ==
  <<config, calendar, now, sheet, folders, files, idsCalls, run, last, edits, ticks, probe, completed,
    overlap>>

Idle ==
  [ pc |-> "idle", events |-> <<>>, index |-> 0, successCount |-> 0, errorCount |-> 0,
    skippedCount |-> 0, alreadyProcessedCount |-> 0 ]

NoProbe == [op |-> "none"]

\* no invocations of onCalendarTrigger side by side
NoOverlap == <<>>

\* the value of last after any step other than an iteration of events.forEach
NoStep == [op |-> "none"]

Init ==
  /\ config \in { [ notifyOnSuccess |-> b, enabled |-> enabled,
                     storeFullUrlInRow4 |-> storeFullUrlInRow4 ] : b \in {notifyOnSuccess, TRUE} }
  /\ calendar = [id \in EventIds |-> Absent]
  /\ now = 0
  /\ sheet = <<HeaderRow>>
  /\ folders = {}
  /\ files = <<>>
  /\ idsCalls = 0
  /\ run = Idle
  /\ last = NoStep
  /\ edits = 0
  /\ ticks = 0
  /\ probe = NoProbe
  /\ completed = {}
  /\ overlap = NoOverlap

\* ------------------------------------------------------------------------
\* The calendar owner books and changes events; time passes
\* ------------------------------------------------------------------------
OtherLocation(location) == CHOOSE l \in Locations : l # location

CalendarChange(id, event) ==
  /\ run.pc = "idle"
  /\ edits < MaxEdits
  /\ calendar' = [calendar EXCEPT ![id] = event]
  /\ edits' = edits + 1
  /\ last' = NoStep
  /\ completed' = IF calendar[id] # Absent
                     /\ generateFingerprint(calendar[id]) = generateFingerprint(event)
                  THEN completed ELSE completed \ {id}
  /\ UNCHANGED <<config, now, sheet, folders, files, idsCalls, run, ticks, probe, overlap>>

AddEvent(id, d) ==
  /\ calendar[id] = Absent
  /\ CalendarChange(id, [ id |-> id, start |-> now + LeadHours, end |-> now + LeadHours + 1,
                          location |-> FirstLocation, description |-> d,
                          secondary |-> FALSE ])

Relocate(id) ==
  /\ calendar[id] # Absent
  /\ CalendarChange(id, [calendar[id] EXCEPT !.location = OtherLocation(@)])

Reschedule(id) ==
  /\ calendar[id] # Absent
  /\ CalendarChange(id, [calendar[id] EXCEPT !.start = @ + 24, !.end = @ + 24])

Redescribe(id, d) ==
  /\ calendar[id] # Absent
  /\ calendar[id].description # d
  /\ CalendarChange(id, [calendar[id] EXCEPT !.description = d])

Tick ==
  /\ run.pc = "idle"
  /\ ticks < MaxTicks
  /\ now' = now + TickHours
  /\ ticks' = ticks + 1
  /\ last' = NoStep
  /\ UNCHANGED <<config, calendar, sheet, folders, files, idsCalls, run, edits, probe, completed, overlap>>

\* ------------------------------------------------------------------------
\* onCalendarTrigger
\* ------------------------------------------------------------------------
\* the body of events.forEach for one event: the new ledger and storage, and
\* which counter the event increments
unchanged(trackingStatus) ==
  [ sheet |-> sheet, folders |-> folders, files |-> files, idsCalls |-> idsCalls,
    tracking |-> trackingStatus, buildFile |-> 0, created |-> FALSE, mail |-> "none" ]

\* the index into the data array (one less than the sheet row) handed on
existingRowIndex_ArrayIndex(trackingStatus) ==
  IF trackingStatus.needsUpdate THEN trackingStatus.rowIndex - 1 ELSE -1

\* the ledger row a successful transition hands to markEventProcessed
existingRowIndex(trackingStatus) ==
  IF trackingStatus.needsUpdate THEN trackingStatus.rowIndex ELSE -1

phase1Iteration(event, env, trackingStatus) ==
  Only({ IF result.threw \/ markEventProcessedThrows(config.enabled, sheet)
         THEN [ kind |-> "Phase 1", counter |-> "error", sheet |-> sheet,
                folders |-> result.folders, files |-> result.files,
                idsCalls |-> result.idsCalls, tracking |-> trackingStatus,
                buildFile |-> 0, created |-> result.created, mail |-> result.mail ]
         ELSE [ kind |-> "Phase 1", counter |-> "success",
                sheet |-> markEventProcessed(config.enabled, sheet, event, "Phase 1",
                            [ fullName |-> result.eventData.fullName,
                              companyName |-> result.eventData.companyName,
                              email |-> result.eventData.email,
                              buildFileId |-> result.buildFileId,
                              leaderFolderId |-> result.leaderFolderId ],
                            existingRowIndex(trackingStatus), now),
                folders |-> result.folders, files |-> result.files,
                idsCalls |-> result.idsCalls, tracking |-> trackingStatus,
                buildFile |-> getBuildFileById(result.files, result.buildFileId),
                created |-> result.created, mail |-> result.mail ]
         : result \in {processPhase1Event(event, folders, files, idsCalls, env)} })

phase2Iteration(event, trackingStatus) ==
  Only({ IF result.threw
         THEN [kind |-> "Phase 2", counter |-> "error"] @@ unchanged(trackingStatus)
         ELSE IF markEventProcessedThrows(config.enabled, sheet)
         THEN [ kind |-> "Phase 2", counter |-> "error", sheet |-> sheet,
                folders |-> folders, files |-> result.files, idsCalls |-> idsCalls,
                tracking |-> trackingStatus, buildFile |-> result.buildFile,
                created |-> FALSE, mail |-> "none" ]
         ELSE [ kind |-> "Phase 2", counter |-> "success",
                sheet |-> markEventProcessed(config.enabled, sheet, event, "Phase 2",
                            [ fullName |-> result.eventData.fullName,
                              companyName |-> result.eventData.companyName,
                              email |-> result.eventData.email,
                              buildFileId |-> <<>>,
                              leaderFolderId |-> <<>> ],
                            existingRowIndex(trackingStatus), now),
                folders |-> folders, files |-> result.files,
                idsCalls |-> idsCalls, tracking |-> trackingStatus,
                buildFile |-> result.buildFile, created |-> FALSE, mail |-> "none" ]
         : result \in {processPhase2Event(event, sheet, folders, files)} })

\* variant: the Phase 2 identifiers are tested before the Phase 1 identifiers
iteration_Phase2First(event, env) ==
  LET trackingStatus == isEventProcessed(config.enabled, sheet, event)
  IN IF isPhase2Event(event)
     THEN [ledgerRead |-> TRUE]
          @@ (IF trackingStatus.processed
              THEN [kind |-> "Phase 2", counter |-> "alreadyProcessed"] @@ unchanged(trackingStatus)
              ELSE phase2Iteration(event, trackingStatus))
     ELSE IF isPhase1Event(event)
     THEN [ledgerRead |-> TRUE]
          @@ (IF trackingStatus.processed
              THEN [kind |-> "Phase 1", counter |-> "alreadyProcessed"] @@ unchanged(trackingStatus)
              ELSE phase1Iteration(event, env, trackingStatus))
     ELSE [ledgerRead |-> FALSE, kind |-> "none", counter |-> "skipped"] @@ unchanged(NotTracked)

\* ledgerRead: isEventProcessed was called; it is called inside the Phase 1
\* and the Phase 2 branch only
iteration(event, env) ==
  IF isPhase1Event(event)
  THEN Only({ [ledgerRead |-> TRUE]
              @@ (IF trackingStatus.processed
                  THEN [kind |-> "Phase 1", counter |-> "alreadyProcessed"]
                       @@ unchanged(trackingStatus)
                  ELSE phase1Iteration(event, env, trackingStatus))
              : trackingStatus \in {isEventProcessed(config.enabled, sheet, event)} })
  ELSE IF isPhase2Event(event)
  THEN Only({ [ledgerRead |-> TRUE]
              @@ (IF trackingStatus.processed
                  THEN [kind |-> "Phase 2", counter |-> "alreadyProcessed"]
                       @@ unchanged(trackingStatus)
                  ELSE phase2Iteration(event, trackingStatus))
              : trackingStatus \in {isEventProcessed(config.enabled, sheet, event)} })
  ELSE [ledgerRead |-> FALSE, kind |-> "none", counter |-> "skipped"] @@ unchanged(NotTracked)

\* the outcomes the external services can give during one event; only the
\* Phase 1 transition calls the link API, copies a login code or sends the
\* success notification
Environments(cfg, event) ==
  { [ notifyOnSuccess |-> cfg.notifyOnSuccess, storeFullUrlInRow4 |-> cfg.storeFullUrlInRow4,
      apiOk |-> a, copyOk |-> c, mailOk |-> m ] :
      a \in IF isPhase1Event(event) THEN BOOLEAN ELSE {TRUE},
      c \in IF isPhase1Event(event) THEN BOOLEAN ELSE {TRUE},
      m \in IF isPhase1Event(event) /\ cfg.notifyOnSuccess THEN BOOLEAN ELSE {TRUE} }

\* EmailUtils.sendErrorEmail, the last call of handleEventError: TRUE when it
\* throws; nothing catches it inside events.forEach
sendErrorEmail(notify, mailOk) == notify /\ ~mailOk

\* the start of onCalendarTrigger up to events.forEach.  getNewCalendarEvents
\* catches a failure to read a calendar and goes on with the events it has,
\* so a failed fetch (calendarOk false) is an empty list; an empty list takes
\* the "return" inside the try
StartTrigger ==
  /\ run.pc = "idle"
  /\ \E calendarOk \in BOOLEAN :
       LET events == IF calendarOk THEN getNewCalendarEvents(calendar, now) ELSE <<>>
       IN IF Len(events) = 0
          THEN run' = [Idle EXCEPT !.pc = "return"]
          ELSE run' = [Idle EXCEPT !.pc = "loop", !.events = events]
  /\ last' = NoStep
  /\ UNCHANGED <<config, calendar, now, sheet, folders, files, idsCalls, edits, ticks, probe, completed, overlap>>

\* "if (events.length === 0) { Logger.log('No calendar events found in time
\* range'); return; }": the function ends here, the lines after the try are
\* not reached
ReturnNoEvents ==
  /\ run.pc = "return"
  /\ run' = Idle
  /\ last' = NoStep
  /\ UNCHANGED <<config, calendar, now, sheet, folders, files, idsCalls, edits, ticks, probe, completed, overlap>>

ProcessEvent ==
  /\ run.pc = "loop"
  /\ run.index < Len(run.events)
  /\ idsCalls < MaxIdsCalls
  /\ Len(sheet) <= MaxSheetRows
  /\ Len(files) < MaxFiles
  /\ \E event \in {run.events[run.index + 1]} :
     \E env \in Environments(config, event) :
     \E step \in {iteration(event, env)}, errorMailOk \in BOOLEAN :
       LET fatal == step.counter = "error" /\ sendErrorEmail(notifyOnError, errorMailOk)
       IN /\ (step.idsCalls = idsCalls => env.apiOk)
          /\ (~(step.idsCalls # idsCalls /\ env.apiOk) => env.copyOk)
          /\ (step.mail = "none" => env.mailOk)
          /\ (step.counter # "error" => errorMailOk)
          /\ sheet' = step.sheet
          /\ folders' = step.folders
          /\ files' = step.files
          /\ idsCalls' = step.idsCalls
          /\ run' = [ run EXCEPT
                        !.index = @ + 1,
                        !.pc = IF fatal \/ run.index + 1 = Len(run.events)
                               THEN "summary" ELSE "loop",
                        !.successCount = @ + (IF step.counter = "success" THEN 1 ELSE 0),
                        !.alreadyProcessedCount =
                           @ + (IF step.counter = "alreadyProcessed" THEN 1 ELSE 0),
                        !.skippedCount = @ + (IF step.counter = "skipped" THEN 1 ELSE 0),
                        !.errorCount = @ + (IF step.counter = "error" THEN 1 ELSE 0)
                                         + (IF fatal THEN 1 ELSE 0) ]
          /\ last' = [ op |-> "event", event |-> event, kind |-> step.kind,
                       counter |-> step.counter, tracking |-> step.tracking,
                       buildFile |-> step.buildFile, created |-> step.created,
                       idsCalled |-> (step.idsCalls # idsCalls), fatal |-> fatal,
                       mail |-> step.mail, ledgerRead |-> step.ledgerRead ]
          /\ completed' = IF step.counter = "success" THEN completed \cup {event.id}
                          ELSE completed
  /\ UNCHANGED <<config, calendar, now, edits, ticks, probe, overlap>>

LogSummary ==
  /\ run.pc = "summary"
  /\ run' = Idle
  /\ last' = NoStep
  /\ UNCHANGED <<config, calendar, now, sheet, folders, files, idsCalls, edits, ticks, probe, completed, overlap>>

\* ------------------------------------------------------------------------
\* Maintenance functions run by hand or by a periodic trigger
\* ------------------------------------------------------------------------
CleanupEventTracking ==
  /\ run.pc = "idle"
  /\ sheet' = cleanupOldRecords(sheet, now)
  /\ last' = NoStep
  /\ UNCHANGED <<config, calendar, now, folders, files, idsCalls, run, edits, ticks, probe, completed, overlap>>

ResetEventTracking ==
  /\ run.pc = "idle"
  /\ sheet' = resetEventTracking(sheet)
  /\ last' = NoStep
  /\ completed' = {}
  /\ UNCHANGED <<config, calendar, now, folders, files, idsCalls, run, edits, ticks, probe, overlap>>

\* somebody deletes or renames the tab of the tracking spreadsheet; nothing
\* in the program creates it again while the spreadsheet itself exists
DeleteTrackingSheet ==
  /\ run.pc = "idle"
  /\ sheet # NoSheet
  /\ sheet' = NoSheet
  /\ last' = NoStep
  /\ UNCHANGED <<config, calendar, now, folders, files, idsCalls, run, edits, ticks, probe, completed, overlap>>

Next ==
  \/ \E id \in EventIds, d \in DescriptionIds : AddEvent(id, d)
  \/ \E id \in EventIds : Relocate(id)
  \/ \E id \in EventIds : Reschedule(id)
  \/ \E id \in EventIds, d \in DescriptionIds : Redescribe(id, d)
  \/ Tick
  \/ StartTrigger
  \/ ProcessEvent
  \/ LogSummary
  \/ ReturnNoEvents
  \/ CleanupEventTracking
  \/ ResetEventTracking
  \/ DeleteTrackingSheet

Spec == Init /\ [][Next]_vars

\* ------------------------------------------------------------------------
\* Batch runs over a calendar that holds bookings of every kind, with the
\* deduplication switch of the deployment turned off and on and the meeting
\* link of a booking changed between runs; the deployment stores the full
\* response URL or, as shipped, does not
\* ------------------------------------------------------------------------
BatchDescriptions == {"P1Ann", "P2Ann", "Both", "Other", "P1NoEmail", "P1NoAt", "P2NoName"}

\* the booking with the given id and form: e2 is booked for a later hour
BookedEvent(id, d) ==
  [ id |-> id, start |-> IF id = "e1" THEN LeadHours ELSE LeadHours + TickHours,
    end |-> (IF id = "e1" THEN LeadHours ELSE LeadHours + TickHours) + 1,
    location |-> FirstLocation, description |-> d, secondary |-> FALSE ]

InitBatch ==
  /\ config \in { [ notifyOnSuccess |-> notifyOnSuccess, enabled |-> enabled,
                     storeFullUrlInRow4 |-> b ] : b \in BOOLEAN }
  /\ calendar \in { [id \in EventIds |-> IF booked[id] = "none" THEN Absent
                                         ELSE BookedEvent(id, booked[id])]
                    : booked \in [EventIds -> BatchDescriptions \cup {"none"}] }
  /\ now = 0
  /\ sheet = <<HeaderRow>>
  /\ folders = {}
  /\ files = <<>>
  /\ idsCalls = 0
  /\ run = Idle
  /\ last = NoStep
  /\ edits = 0
  /\ ticks = 0
  /\ probe = NoProbe
  /\ completed = {}
  /\ overlap = NoOverlap

\* CONFIG.PROCESSED_EVENTS.enabled is edited and the script saved
SetTrackingEnabled ==
  /\ run.pc = "idle"
  /\ config' = [config EXCEPT !.enabled = ~@]
  /\ last' = NoStep
  /\ UNCHANGED <<calendar, now, sheet, folders, files, idsCalls, run, edits, ticks, probe, completed, overlap>>

NextBatch ==
  \/ \E id \in EventIds : Relocate(id)
  \/ StartTrigger
  \/ ProcessEvent
  \/ LogSummary
  \/ ReturnNoEvents
  \/ SetTrackingEnabled

SpecBatch == InitBatch /\ [][NextBatch]_vars

\* ------------------------------------------------------------------------
\* Batch runs, one after the other, over a fixed calendar some of whose
\* bookings the secondary calendar shows as well
\* ------------------------------------------------------------------------
InitCalendars ==
  /\ config \in { [ notifyOnSuccess |-> b, enabled |-> enabled,
                     storeFullUrlInRow4 |-> storeFullUrlInRow4 ] : b \in {notifyOnSuccess, TRUE} }
  /\ calendar \in { [id \in EventIds |->
                       IF booked[id] = "none" THEN Absent
                       ELSE [BookedEvent(id, booked[id]) EXCEPT !.secondary = shared[id]]]
                    : booked \in [EventIds -> {"P1Ann", "P2Ann", "P1NoEmail", "none"}],
                      shared \in [EventIds -> BOOLEAN] }
  /\ now = 0
  /\ sheet = <<HeaderRow>>
  /\ folders = {}
  /\ files = <<>>
  /\ idsCalls = 0
  /\ run = Idle
  /\ last = NoStep
  /\ edits = 0
  /\ ticks = 0
  /\ probe = NoProbe
  /\ completed = {}
  /\ overlap = NoOverlap

NextCalendars ==
  \/ StartTrigger
  \/ ProcessEvent
  \/ LogSummary
  \/ ReturnNoEvents

SpecCalendars == InitCalendars /\ [][NextCalendars]_vars

\* the time-driven trigger keeps invoking onCalendarTrigger, the calendars
\* are read again and again until the read succeeds, and every invocation
\* runs to its end: the loop over the events does not hang (an iteration is
\* possible whenever the loop is under way).  Nothing is assumed about the
\* notifications; the link API is called once per leader at most, so its
\* failures end by themselves
SpecLive ==
  /\ SpecCalendars
  /\ WF_vars(StartTrigger) /\ WF_vars(LogSummary) /\ WF_vars(ReturnNoEvents)
  /\ SF_vars(StartTrigger /\ run'.pc = "loop")
  /\ []<>(run.pc # "loop")

\* ------------------------------------------------------------------------
\* The tracker's read functions applied to arbitrary ledgers
\* (duplicated event ids and shared emails included)
\* ------------------------------------------------------------------------
AnnLee == <<65, 110, 110, 32, 76, 101, 101>>   \* "Ann Lee"
BobRay == <<66, 111, 98, 32, 82, 97, 121>>     \* "Bob Ray"
BobEmail == <<98, 111, 98, 64, 97, 99, 109, 101, 46, 99, 111, 109>>   \* "bob@acme.com"

ProbeEvents ==
  { [id |-> id, start |-> IF id = "e1" THEN LeadHours ELSE LeadHours + TickHours,
     end |-> (IF id = "e1" THEN LeadHours ELSE LeadHours + TickHours) + 1, location |-> l,
     description |-> "P1Ann"] : id \in EventIds, l \in Locations }

LeadAnn == [leaderName |-> AnnLee, email |-> AnnEmail, buildFileId |-> fileId(1)]

\* Bob Ray recorded under the inbox he shares with Ann Lee
LeadBobShared == [leaderName |-> BobRay, email |-> AnnEmailMixed, buildFileId |-> fileId(2)]

LedgerLeads ==
  { LeadAnn, LeadBobShared,
    [leaderName |-> AnnLee, email |-> AnnEmail, buildFileId |-> <<>>],
    [leaderName |-> BobRay, email |-> BobEmail, buildFileId |-> fileId(2)] }

LedgerRow(e, lead) ==
  [ eventId |-> e.id, fingerprint |-> generateFingerprint(e),
    phase |-> IF lead.buildFileId = <<>> THEN "Phase 2" ELSE "Phase 1",
    leaderName |-> lead.leaderName, company |-> getCompanyFromEmail(lead.email),
    eventDate |-> toISOString(e.start), processedAt |-> toISOString(0),
    lastUpdated |-> toISOString(0), email |-> lead.email,
    buildFileId |-> lead.buildFileId,
    leaderFolderId |-> IF lead.buildFileId = <<>> THEN <<>>
                       ELSE folderId(<<getCompanyFromEmail(lead.email), lead.leaderName>>) ]

\* the rows a ledger is drawn from: every lead for the first version of e1, two
\* leads for its relocated version and for e2, and one row without event date
LedgerRows ==
  { LedgerRow(e, lead) :
      e \in {p \in ProbeEvents : p.id = "e1" /\ p.location = FirstLocation},
      lead \in LedgerLeads }
  \cup
  { LedgerRow(e, lead) :
      e \in {p \in ProbeEvents : p.id = "e1" <=> p.location # FirstLocation},
      lead \in {LeadAnn, LeadBobShared} }
  \cup
  { [LedgerRow(e, LeadAnn) EXCEPT !.eventDate = <<>>] :
      e \in {p \in ProbeEvents : p.id = "e2" /\ p.location = FirstLocation} }

Ledgers(maxRows) ==
  UNION { { <<HeaderRow>> \o rows : rows \in [1..n -> LedgerRows] } : n \in 0..maxRows }

\* the clocks of the pruning probe: before every event, and at and just after
\* the instant each of the two event dates crosses the retention horizon
ProbeClocks ==
  { 0, LeadHours + retentionDays * 24, LeadHours + retentionDays * 24 + 1,
    LeadHours + TickHours + retentionDays * 24,
    LeadHours + TickHours + retentionDays * 24 + 1 }

ProbeEmails == {AnnEmail, AnnEmailMixed, BobEmail, <<>>}

ProbeNames == {<<>>, AnnLee, <<98, 111, 98, 32, 82, 65, 89, 32>>, <<90, 101, 100>>}
                        \* null, "Ann Lee", "bob RAY ", "Zed"

\* the Phase 2 bookings of the two leads
Phase2ProbeEvents ==
  { [id |-> "e2", start |-> LeadHours + TickHours, end |-> LeadHours + TickHours + 1,
     location |-> FirstLocation, description |-> d] : d \in Phase2Descriptions }

\* Drive after the Phase 1 transition of a booking, every external call succeeding or not
AfterPhase1(drive, d, ok) ==
  Only({ [folders |-> result.folders, files |-> result.files]
         : result \in
             { processPhase1Event(
                 [ id |-> "e1", start |-> LeadHours, end |-> LeadHours + 1,
                   location |-> FirstLocation, description |-> d ],
                 drive.folders, drive.files, Len(drive.files),
                 [ notifyOnSuccess |-> notifyOnSuccess,
                   storeFullUrlInRow4 |-> storeFullUrlInRow4, apiOk |-> ok, copyOk |-> ok,
                   mailOk |-> TRUE ]) } })

\* the Drive states of the Phase 2 probe: empty; Ann Lee's Build File B1 only;
\* B1 and Bob Ray's B2; the two with B1 deleted in Drive (getFileById fails,
\* the folder no longer lists it); and B1 deleted and made anew as B3 by a
\* Phase 1 run that failed at the link API
DriveStates ==
  LET empty == [folders |-> {}, files |-> <<>>]
      ann == AfterPhase1(empty, "P1Ann", TRUE)
      both == AfterPhase1(ann, "P1Bob", TRUE)
      deleted == [both EXCEPT !.files[1].trashed = TRUE]
  IN {empty, ann, both, deleted, AfterPhase1(deleted, "P1Ann", FALSE)}

InitFn ==
  /\ config = [ notifyOnSuccess |-> notifyOnSuccess, enabled |-> enabled,
                storeFullUrlInRow4 |-> storeFullUrlInRow4 ]
  /\ sheet \in Ledgers(MaxRows) \cup {NoSheet}
  /\ calendar = [id \in EventIds |-> Absent]
  /\ now = 0
  /\ folders = {}
  /\ files = <<>>
  /\ idsCalls = 0
  /\ run = Idle
  /\ last = NoStep
  /\ edits = 0
  /\ ticks = 0
  /\ probe = NoProbe
  /\ completed = {}
  /\ overlap = NoOverlap

ApplyIsEventProcessed(event) ==
  /\ probe = NoProbe
  /\ probe' = [ op |-> "isEventProcessed", event |-> event,
                result |-> isEventProcessed(enabled, sheet, event) ]
  /\ UNCHANGED <<config, calendar, now, sheet, folders, files, idsCalls, run, last, edits, ticks, completed, overlap>>

ApplyFindByEmail(email, leaderName) ==
  /\ probe = NoProbe
  /\ probe' = [ op |-> "findByEmail", email |-> email, leaderName |-> leaderName,
                result |-> findByEmail(sheet, email, leaderName) ]
  /\ UNCHANGED <<config, calendar, now, sheet, folders, files, idsCalls, run, last, edits, ticks, completed, overlap>>

\* a tracker read (isEventProcessed, findByEmail with an email, getStats)
\* while Drive denies access to the tracking spreadsheet
ApplyReadDenied(read) ==
  /\ probe = NoProbe
  /\ probe' = [op |-> "denied", read |-> read, threw |-> getTrackingSpreadsheetThrows(FALSE)]
  /\ UNCHANGED <<config, calendar, now, sheet, folders, files, idsCalls, run, last, edits, ticks, completed, overlap>>

ApplyGetStats ==
  /\ probe = NoProbe
  /\ probe' = [op |-> "getStats", result |-> getStats(sheet)]
  /\ UNCHANGED <<config, calendar, now, sheet, folders, files, idsCalls, run, last, edits, ticks, completed, overlap>>

\* the versions of one booking that the fingerprint probe compares: as booked;
\* moved to another link; moved by a day; made an hour longer; booked for the
\* other phase; with an address that differs in its last character, the
\* 101st of the description; and with two meeting links that end in "Aa"
\* and in "BB"
EventVersions ==
  LET booked == BookedEvent("e1", "P1Ann")
  IN { booked,
       [booked EXCEPT !.location = OtherLocation(@)],
       [booked EXCEPT !.start = @ + 24, !.end = @ + 24],
       [booked EXCEPT !.end = @ + 1],
       [booked EXCEPT !.description = "P2Ann"],
       [booked EXCEPT !.description = "P1AnnCon"],
       [booked EXCEPT !.location = SubSeq(FirstLocation, 1, 13) \o <<65, 97>>],
       [booked EXCEPT !.location = SubSeq(FirstLocation, 1, 13) \o <<66, 66>>],
       [title |-> <<82, 101, 98, 111, 111, 107, 101, 100>>] @@ booked }   \* titled "Rebooked"

\* generateFingerprint of two versions of a booking (the ledger is not read)
ApplyGenerateFingerprint(first, second) ==
  /\ probe = NoProbe
  /\ sheet = <<HeaderRow>>
  /\ probe' = [ op |-> "generateFingerprint", first |-> first, second |-> second,
                fingerprints |-> <<generateFingerprint(first), generateFingerprint(second)>> ]
  /\ UNCHANGED <<config, calendar, now, sheet, folders, files, idsCalls, run, last, edits, ticks, completed, overlap>>

\* markEventProcessed of a new event: the row is appended, or the call throws
ApplyMarkEventProcessed(event) ==
  /\ probe = NoProbe
  /\ isEventProcessed(enabled, sheet, event).rowIndex = -1
  /\ \E thrown \in {markEventProcessedThrows(enabled, sheet)} :
       /\ probe' = [ op |-> "markEventProcessed", event |-> event, before |-> sheet,
                     thrown |-> thrown ]
       /\ sheet' = IF thrown THEN sheet
                   ELSE markEventProcessed(enabled, sheet, event, "Phase 1",
                                           [ fullName |-> AnnLee,
                                             companyName |-> getCompanyFromEmail(AnnEmail),
                                             email |-> AnnEmail, buildFileId |-> fileId(1),
                                             leaderFolderId |-> <<>> ], -1, now)
  /\ UNCHANGED <<config, calendar, now, folders, files, idsCalls, run, last, edits, ticks, completed, overlap>>

\* markEventProcessed(event, 'Phase 2', eventData, existingRowIndex) at the
\* given clock, for Bob Ray, with a row of the sheet or none as the row index
ApplyMarkEventProcessedAt(event, rowIndex, clock) ==
  /\ probe = NoProbe
  /\ sheet # NoSheet
  /\ rowIndex <= Len(sheet)
  /\ probe' = [ op |-> "markEventProcessedAt", event |-> event, before |-> sheet,
                existingRowIndex |-> rowIndex, clock |-> clock ]
  /\ sheet' = markEventProcessed(enabled, sheet, event, "Phase 2",
                                 [ fullName |-> BobRay,
                                   companyName |-> getCompanyFromEmail(BobEmail),
                                   email |-> BobEmail, buildFileId |-> <<>>,
                                   leaderFolderId |-> <<>> ], rowIndex, clock)
  /\ UNCHANGED <<config, calendar, now, folders, files, idsCalls, run, last, edits, ticks, completed, overlap>>

\* cleanupOldRecords at the given clock, and once more at the same clock
ApplyCleanupOldRecords(clock) ==
  /\ \/ probe = NoProbe
     \/ probe.op = "cleanupOldRecords" /\ probe.clock = clock /\ probe.runs = 1
  /\ probe' = [ op |-> "cleanupOldRecords", clock |-> clock,
                original |-> IF probe = NoProbe THEN sheet ELSE probe.original,
                before |-> sheet,
                runs |-> IF probe = NoProbe THEN 1 ELSE 2 ]
  /\ sheet' = cleanupOldRecords(sheet, clock)
  /\ UNCHANGED <<config, calendar, now, folders, files, idsCalls, run, last, edits, ticks, completed, overlap>>

\* processPhase2Event over the ledger and a Drive state
ApplyProcessPhase2Event(event, drive) ==
  /\ probe = NoProbe
  /\ probe' = [ op |-> "processPhase2Event", event |-> event,
                folders |-> drive.folders, files |-> drive.files,
                result |-> processPhase2Event(event, sheet, drive.folders, drive.files) ]
  /\ UNCHANGED <<config, calendar, now, sheet, folders, files, idsCalls, run, last, edits, ticks, completed, overlap>>

NextFn ==
  \/ \E event \in ProbeEvents : ApplyIsEventProcessed(event)
  \/ \E email \in ProbeEmails, leaderName \in ProbeNames : ApplyFindByEmail(email, leaderName)
  \/ ApplyGetStats
  \/ \E read \in {"isEventProcessed", "findByEmail", "getStats"} : ApplyReadDenied(read)
  \/ \E first \in EventVersions, second \in EventVersions :
       ApplyGenerateFingerprint(first, second)
  \/ \E event \in ProbeEvents : ApplyMarkEventProcessed(event)
  \/ \E event \in {p \in ProbeEvents : p.id = "e1"}, rowIndex \in -1..(MaxRows + 1) :
       ApplyMarkEventProcessedAt(event, rowIndex, TickHours)
  \/ \E clock \in ProbeClocks : ApplyCleanupOldRecords(clock)
  \/ \E event \in Phase2ProbeEvents, drive \in DriveStates :
       ApplyProcessPhase2Event(event, drive)

SpecFn == InitFn /\ [][NextFn]_vars

\* ------------------------------------------------------------------------
\* Two invocations of onCalendarTrigger side by side (the time-driven
\* trigger, the menu and the editor each start one; nothing in the code
\* takes a lock), with the maintenance functions run at any moment.  An
\* invocation is followed from one call on the ledger or on Drive to the
\* next; the calendar holds Phase 1 bookings only.
\* ------------------------------------------------------------------------
Invocations == {"first", "second"}

\* the locals of an invocation: the event list and the position in it, the
\* trackingStatus and the Build File found for the event in hand, and the
\* counter the event last finished incremented.  seen, drive and before keep
\* the sheet as isEventProcessed read it, the files as findFileInFolder
\* listed them and the sheet as markEventProcessed found it
NotInvoked ==
  [ pc |-> "idle", events |-> <<>>, index |-> 0, tracking |-> NotTracked, existing |-> 0,
    buildFile |-> 0, counter |-> "none", seen |-> <<>>, drive |-> <<>>, before |-> <<>> ]

OverlapClock == retentionDays * 24 + TickHours

\* the booking with the given id, made by Ann Lee for the days after OverlapClock
OverlapEvent(id) ==
  [ BookedEvent(id, "P1Ann") EXCEPT
      !.start = OverlapClock + LeadHours + (IF id = "e1" THEN 0 ELSE 24),
      !.end = OverlapClock + LeadHours + (IF id = "e1" THEN 0 ELSE 24) + 1 ]

\* the ledger and Drive after earlier runs recorded the first n of: a booking
\* long past, the booking e1, the booking e2
RecordedEarlier(n) ==
  LET past == [BookedEvent("e1", "P1Ann") EXCEPT !.id = "e0"]
      bookings == <<past, OverlapEvent("e1"), OverlapEvent("e2")>>
      env == [ notifyOnSuccess |-> notifyOnSuccess, storeFullUrlInRow4 |-> storeFullUrlInRow4,
               apiOk |-> TRUE, copyOk |-> TRUE, mailOk |-> TRUE ]
      result == processPhase1Event(past, {}, <<>>, 0, env)
      rowData == [ fullName |-> result.eventData.fullName,
                   companyName |-> result.eventData.companyName,
                   email |-> result.eventData.email, buildFileId |-> result.buildFileId,
                   leaderFolderId |-> result.leaderFolderId ]
      record[k \in 0..3] ==
        IF k = 0 THEN <<HeaderRow>>
        ELSE markEventProcessed(TRUE, record[k - 1], bookings[k], "Phase 1", rowData, -1,
                                IF k = 1 THEN 0 ELSE OverlapClock - TickHours)
  IN IF n = 0 THEN [sheet |-> <<HeaderRow>>, folders |-> {}, files |-> <<>>, idsCalls |-> 0]
     ELSE [ sheet |-> record[n], folders |-> result.folders, files |-> result.files,
            idsCalls |-> result.idsCalls ]

\* e1 is booked; where it has a record it has been moved since, so that the
\* record is stale; e2 is booked where it has a record
InitOverlap ==
  /\ config \in { [ notifyOnSuccess |-> b, enabled |-> enabled,
                     storeFullUrlInRow4 |-> storeFullUrlInRow4 ] : b \in {notifyOnSuccess, TRUE} }
  /\ now = OverlapClock
  /\ \E n \in {0, 2, 3} :
       /\ calendar = [id \in EventIds |->
                        IF id = "e1"
                        THEN (IF n = 0 THEN OverlapEvent(id)
                              ELSE [OverlapEvent(id) EXCEPT !.location = OtherLocation(@)])
                        ELSE IF n = 3 THEN OverlapEvent(id) ELSE Absent]
       /\ sheet = RecordedEarlier(n).sheet
       /\ folders = RecordedEarlier(n).folders
       /\ files = RecordedEarlier(n).files
       /\ idsCalls = RecordedEarlier(n).idsCalls
  /\ run = Idle
  /\ last = NoStep
  /\ edits = 0
  /\ ticks = 0
  /\ probe = NoProbe
  /\ completed = {}
  /\ overlap = [i \in Invocations |-> NotInvoked]

\* the event in hand
InvocationEvent(i) == overlap[i].events[overlap[i].index + 1]

\* the end of one iteration of events.forEach: the next event, or the
\* summary and the end of the invocation
nextIteration(invocation, counter, fatal) ==
  [ invocation EXCEPT
      !.index = @ + 1, !.counter = counter,
      !.pc = IF fatal \/ invocation.index + 1 = Len(invocation.events) THEN "done"
             ELSE "check" ]

\* onCalendarTrigger up to events.forEach
Invoke(i) ==
  /\ overlap[i].pc = "idle"
  /\ Len(getNewCalendarEvents(calendar, now)) > 0
  /\ overlap' = [overlap EXCEPT ![i] = [NotInvoked EXCEPT
                                          !.pc = "check",
                                          !.events = getNewCalendarEvents(calendar, now)]]
  /\ UNCHANGED <<config, calendar, now, sheet, folders, files, idsCalls, run, last, edits, ticks,
                 probe, completed>>

\* ProcessedEventsTracker.isEventProcessed(event), the "already processed" return
CheckLedger(i) ==
  /\ overlap[i].pc = "check"
  /\ \E trackingStatus \in {isEventProcessed(config.enabled, sheet, InvocationEvent(i))} :
       overlap' = [overlap EXCEPT ![i] =
                     IF trackingStatus.processed
                     THEN [ nextIteration(overlap[i], "alreadyProcessed", FALSE) EXCEPT
                              !.tracking = trackingStatus, !.seen = sheet ]
                     ELSE [ overlap[i] EXCEPT
                              !.pc = "find", !.tracking = trackingStatus, !.seen = sheet ]]
  /\ UNCHANGED <<config, calendar, now, sheet, folders, files, idsCalls, run, last, edits, ticks,
                 probe, completed>>

\* processPhase1Event up to the lookup of processLeaderBuildFile:
\* extractEventData, createLeaderFolderStructure, findFileInFolder
FindBuildFile(i) ==
  /\ overlap[i].pc = "find"
  /\ \E eventData \in {extractEventData(InvocationEvent(i))} :
     \E structure \in {createLeaderFolderStructure(folders, eventData)} :
       /\ folders' = structure.folders
       /\ overlap' = [overlap EXCEPT ![i] =
                        [ overlap[i] EXCEPT
                            !.pc = "build",
                            !.existing = findFileInFolder(files, structure.leaderFolder,
                                                          buildFileNameOf(eventData.fullName)),
                            !.drive = files ]]
  /\ UNCHANGED <<config, calendar, now, sheet, files, idsCalls, run, last, edits, ticks, probe,
                 completed>>

\* the rest of processLeaderBuildFile and of processPhase1Event: the file
\* found is updated, or the template is copied, filled in and linked; then
\* the success notification.  An exception ends the iteration in
\* handleEventError, whose notification can throw in turn
BuildFile(i) ==
  /\ overlap[i].pc = "build"
  /\ \E env \in Environments(config, InvocationEvent(i)), errorMailOk \in BOOLEAN :
     \E eventData \in {extractEventData(InvocationEvent(i))} :
     \E built \in
        { IF overlap[i].existing # 0
          THEN [ threw |-> FALSE,
                 files |-> updatePhase1Settings(files, overlap[i].existing, eventData),
                 idsCalls |-> idsCalls, buildFile |-> overlap[i].existing ]
          ELSE [ buildFile |-> Len(files) + 1, idsCalls |-> idsCalls + 1 ]
               @@ updateResponseLink(
                    updatePhase1Settings(
                      createNewBuildFile(files, buildFileNameOf(eventData.fullName),
                                         <<eventData.companyName, eventData.fullName>>),
                      Len(files) + 1, eventData),
                    Len(files) + 1, generateResponseLink(idsCalls + 1, env.apiOk), env) } :
     \E threw \in {built.threw \/ sendSuccessEmail(env.notifyOnSuccess, env.mailOk)} :
       /\ (overlap[i].existing # 0 => env.apiOk)
       /\ (~(overlap[i].existing = 0 /\ env.apiOk) => env.copyOk)
       /\ (built.threw => env.mailOk)
       /\ (~threw => errorMailOk)
       /\ files' = built.files
       /\ idsCalls' = built.idsCalls
       /\ overlap' = [overlap EXCEPT ![i] =
                        IF threw
                        THEN nextIteration(overlap[i], "error",
                                           sendErrorEmail(notifyOnError, errorMailOk))
                        ELSE [overlap[i] EXCEPT !.pc = "mark", !.buildFile = built.buildFile]]
  /\ UNCHANGED <<config, calendar, now, sheet, folders, run, last, edits, ticks, probe, completed>>

\* ProcessedEventsTracker.markEventProcessed(event, 'Phase 1', {...},
\* trackingStatus.needsUpdate ? trackingStatus.rowIndex : -1)
MarkLedger(i) ==
  /\ overlap[i].pc = "mark"
  /\ \E eventData \in {extractEventData(InvocationEvent(i))} :
       sheet' = markEventProcessed(
                  config.enabled, sheet, InvocationEvent(i), "Phase 1",
                  [ fullName |-> eventData.fullName, companyName |-> eventData.companyName,
                    email |-> eventData.email,
                    buildFileId |-> files[overlap[i].buildFile].id,
                    leaderFolderId |-> folderId(<<eventData.companyName, eventData.fullName>>) ],
                  existingRowIndex(overlap[i].tracking), now)
  /\ overlap' = [overlap EXCEPT ![i] =
                   [nextIteration(overlap[i], "success", FALSE) EXCEPT !.before = sheet]]
  /\ UNCHANGED <<config, calendar, now, folders, files, idsCalls, run, last, edits, ticks, probe,
                 completed>>

NextOverlap ==
  \/ \E i \in Invocations : Invoke(i)
  \/ \E i \in Invocations : CheckLedger(i)
  \/ \E i \in Invocations : FindBuildFile(i)
  \/ \E i \in Invocations : BuildFile(i)
  \/ \E i \in Invocations : MarkLedger(i)
  \/ CleanupEventTracking
  \/ ResetEventTracking

SpecOverlap == InitOverlap /\ [][NextOverlap]_vars

\* ------------------------------------------------------------------------
\* Properties
\* ------------------------------------------------------------------------
\* one iteration of the batch loop is taken, for the event CurrentEvent
IterationStep == run.pc = "loop" /\ run'.index = run.index + 1

CurrentEvent == run.events[run.index + 1]

\* the sheet rows (header excluded) that hold the event id
RowsWithId(data, id) == {i \in 2..Len(data) : data[i].eventId = id}

\* the event has a record whose fingerprint is the event's current one
RecordedUnchanged(data, event) ==
  \E i \in RowsWithId(data, event.id) : data[i].fingerprint = generateFingerprint(event)

\* the Build Files kept in the leader folder of the lead extracted from event
LeaderFiles(fileSeq, event) ==
  LET eventData == extractEventData(event)
  IN {f \in 1..Len(fileSeq) :
        /\ fileSeq[f].parent = <<eventData.companyName, eventData.fullName>>
        /\ ~fileSeq[f].trashed}

C2_Phase1RowsValidated ==
  \A i \in 2..Len(sheet) :
    sheet[i].phase = "Phase 1" =>
      \A f \in 1..Len(files) :
        files[f].id = sheet[i].buildFileId =>
          /\ files[f].phase1[phase1LoginCodeRow] # <<>>
          /\ files[f].phase1[PHASE1_rows_date] # <<>>
          /\ files[f].phase1[PHASE1_rows_time] # <<>>
          /\ files[f].phase1[PHASE1_rows_name] # <<>>
          /\ files[f].phase1[PHASE1_rows_zoomLink] # <<>>

\* C3: the link API is called only for a leader who has no Build File yet, and
\* a non-empty Phase 1 login-code cell never changes, whatever batch runs,
\* prunes and resets happen.
C3_LoginCodeMintedOnce ==
  [][ /\ idsCalls' # idsCalls =>
           IterationStep /\ LeaderFiles(files, CurrentEvent) = {}
      /\ \A f \in 1..Len(files) :
           files[f].phase1[phase1LoginCodeRow] # <<>> =>
             /\ f <= Len(files')
             /\ files'[f].phase1[phase1LoginCodeRow] = files[f].phase1[phase1LoginCodeRow]
    ]_vars

C3_Witness ==
  /\ last.op = "event"
  /\ last.kind = "Phase 1"
  /\ last.counter = "success"
  /\ last.tracking = NotTracked
  /\ ~last.created
  /\ ~last.idsCalled
  /\ files[last.buildFile].phase1[phase1LoginCodeRow] # <<>>

\* C4: a Phase 1 run for a leader whose Build File an earlier run created
\* leaves exactly one Build File in the leader folder, carrying a login code,
\* and does not call the link API.
C4_OneArtifactOneCode ==
  (last.op = "event" /\ last.kind = "Phase 1" /\ last.counter = "success" /\ ~last.created) =>
    /\ Cardinality(LeaderFiles(files, last.event)) = 1
    /\ \A f \in LeaderFiles(files, last.event) : files[f].phase1[phase1LoginCodeRow] # <<>>
    /\ ~last.idsCalled

\* C5: when the link API fails for a newly created artifact, the ledger is
\* left exactly as it was, the event is counted as errored and not as
\* processed, and the event has no record with its current fingerprint, so
\* the next run does not skip it.
C5_LinkFailureBlocksMarking ==
  [][ ( /\ IterationStep
        /\ isPhase1Event(CurrentEvent)
        /\ Len(files') = Len(files) + 1
        /\ files'[Len(files')].phase1[phase1LoginCodeRow] = <<>> ) =>
        /\ sheet' = sheet
        /\ run'.errorCount > run.errorCount
        /\ run'.successCount = run.successCount
        /\ ~RecordedUnchanged(sheet', CurrentEvent) ]_vars

C5_Witness ==
  /\ last.op = "event"
  /\ last.kind = "Phase 1"
  /\ last.counter = "error"
  /\ last.created
  /\ last.idsCalled
  /\ last.tracking.needsUpdate
  /\ sheet[last.tracking.rowIndex].eventId = last.event.id
  /\ sheet[last.tracking.rowIndex].fingerprint # generateFingerprint(last.event)

\* C6: for an event whose record holds another fingerprint than its current
\* one, isEventProcessed returns processed=false, needsUpdate=true and the
\* row number of that record, and a successful reprocess rewrites that row in
\* place: same row count, the row holds the new fingerprint, every other row
\* is unchanged and no second row with the id appears.
C6_StaleRowRewrittenInPlace ==
  [][ \A i \in 2..Len(sheet) :
        ( /\ IterationStep
          /\ isPhase1Event(CurrentEvent) \/ isPhase2Event(CurrentEvent)
          /\ RowsWithId(sheet, CurrentEvent.id) = {i}
          /\ sheet[i].fingerprint # generateFingerprint(CurrentEvent) ) =>
          /\ last'.tracking = [processed |-> FALSE, needsUpdate |-> TRUE, rowIndex |-> i]
          /\ run'.successCount = run.successCount + 1 =>
               /\ Len(sheet') = Len(sheet)
               /\ sheet'[i].eventId = CurrentEvent.id
               /\ sheet'[i].fingerprint = generateFingerprint(CurrentEvent)
               /\ \A j \in 1..Len(sheet) : j # i => sheet'[j] = sheet[j]
               /\ RowsWithId(sheet', CurrentEvent.id) = {i} ]_vars

C6_Witness ==
  /\ last.op = "event"
  /\ last.counter = "success"
  /\ last.tracking.needsUpdate
  /\ last.event.location # FirstLocation
  /\ last.tracking.rowIndex = Len(sheet)
  /\ sheet[last.tracking.rowIndex].eventId = last.event.id
  /\ sheet[last.tracking.rowIndex].fingerprint = generateFingerprint(last.event)

\* C7: every event id occurs in at most one ledger row.
C7_EventIdUnique ==
  \A i, j \in 2..Len(sheet) : sheet[i].eventId = sheet[j].eventId => i = j

C7_Witness ==
  /\ last.op = "event"
  /\ last.counter = "success"
  /\ last.tracking.needsUpdate
  /\ last.event.start > now + LeadHours
  /\ Cardinality(RowsWithId(sheet, last.event.id)) = 1

\* C8: isEventProcessed returns {false, false, -1} when no row holds the
\* event id, and otherwise decides on the first such row alone: {true, false,
\* row} when its fingerprint equals the event's, {false, true, row} when it
\* differs; processed and needsUpdate are never both true.
C8_Trichotomy ==
  probe.op = "isEventProcessed" =>
    LET rows == RowsWithId(sheet, probe.event.id)
        first == CHOOSE i \in rows : \A j \in rows : i <= j
    IN /\ ~(probe.result.processed /\ probe.result.needsUpdate)
       /\ rows = {} => probe.result = [processed |-> FALSE, needsUpdate |-> FALSE, rowIndex |-> -1]
       /\ rows # {} =>
            IF sheet[first].fingerprint = generateFingerprint(probe.event)
            THEN probe.result = [processed |-> TRUE, needsUpdate |-> FALSE, rowIndex |-> first]
            ELSE probe.result = [processed |-> FALSE, needsUpdate |-> TRUE, rowIndex |-> first]

C8_Witness ==
  /\ probe.op = "isEventProcessed"
  /\ Cardinality(RowsWithId(sheet, probe.event.id)) = 2
  /\ probe.result.needsUpdate
  /\ \E i \in RowsWithId(sheet, probe.event.id) :
       sheet[i].fingerprint = generateFingerprint(probe.event)

\* C9: a Phase 2 event that completes successfully has written its fields
\* into the artifact kept in the leader folder (companyName / fullName) of
\* the lead extracted from that event.
C9_Phase2UpdatesOwnArtifact ==
  (last.op = "event" /\ last.kind = "Phase 2" /\ last.counter = "success") =>
    last.buildFile \in LeaderFiles(files, last.event)

\* C10: when two rows with a Build File id share the queried email (compared
\* lower-cased and trimmed) and have different leader names, findByEmail with
\* the name of one of them returns that row, and findByEmail without a name
\* returns the first of the two in ledger order.
C10_Candidates ==
  {i \in 2..Len(sheet) :
     trim(toLowerCase(sheet[i].email)) = trim(toLowerCase(probe.email))
     /\ sheet[i].buildFileId # <<>>}

C10_EmailDisambiguation ==
  ( /\ probe.op = "findByEmail"
    /\ probe.email # <<>>
    /\ \E a, b \in C10_Candidates :
         trim(toLowerCase(sheet[a].leaderName)) # trim(toLowerCase(sheet[b].leaderName)) ) =>
    LET named == {c \in C10_Candidates :
                    trim(toLowerCase(sheet[c].leaderName)) = trim(toLowerCase(probe.leaderName))}
        first(rows) == CHOOSE i \in rows : \A j \in rows : i <= j
        returns(c) == /\ probe.result # Null
                      /\ probe.result.rowIndex = c - 1
                      /\ probe.result.leaderName = sheet[c].leaderName
                      /\ probe.result.buildFileId = sheet[c].buildFileId
    IN /\ probe.leaderName = <<>> => returns(first(C10_Candidates))
       /\ (probe.leaderName # <<>> /\ named # {}) => returns(first(named))

C10_Witness ==
  /\ probe.op = "findByEmail"
  /\ probe.leaderName # <<>>
  /\ Cardinality(C10_Candidates) = 2
  /\ probe.result # Null
  /\ probe.result.rowIndex = 2
  /\ \E a \in C10_Candidates : a < 3 /\ sheet[a].leaderName # sheet[3].leaderName
  /\ trim(toLowerCase(probe.leaderName)) = trim(toLowerCase(sheet[3].leaderName))
  /\ sheet[2].email # sheet[3].email

\* the candidates whose leader name equals the name hint of the probe
NamedCandidates ==
  {c \in C10_Candidates :
     trim(toLowerCase(sheet[c].leaderName)) = trim(toLowerCase(probe.leaderName))}

FirstOf(rows) == CHOOSE i \in rows : \A j \in rows : i <= j

\* findByEmail returned the candidate of sheet row c
Returned(c) ==
  /\ probe.result # Null
  /\ probe.result = [ rowIndex |-> c - 1, buildFileId |-> sheet[c].buildFileId,
                      leaderFolderId |-> sheet[c].leaderFolderId,
                      leaderName |-> sheet[c].leaderName, company |-> sheet[c].company ]

\* C11 (as claimed): with several candidates and a name hint, when the name
\* filter yields zero rows or more than one row, findByEmail returns the first
\* candidate of the full email-match set.
C11_FallbackToFirstCandidate ==
  ( /\ probe.op = "findByEmail"
    /\ probe.email # <<>>
    /\ probe.leaderName # <<>>
    /\ Cardinality(C10_Candidates) > 1
    /\ Cardinality(NamedCandidates) # 1 ) =>
    Returned(FirstOf(C10_Candidates))

\* C11 (amended): with several candidates and a name hint, when the name
\* filter yields zero rows findByEmail returns the first candidate of the full
\* email-match set, and when it yields more than one row it returns the first
\* row of the name-filtered subset.
C11_FallbackByNameCount ==
  ( /\ probe.op = "findByEmail"
    /\ probe.email # <<>>
    /\ probe.leaderName # <<>>
    /\ Cardinality(C10_Candidates) > 1
    /\ Cardinality(NamedCandidates) # 1 ) =>
    IF NamedCandidates = {} THEN Returned(FirstOf(C10_Candidates))
    ELSE Returned(FirstOf(NamedCandidates))

C11_Witness ==
  /\ probe.op = "findByEmail"
  /\ probe.leaderName # <<>>
  /\ Cardinality(C10_Candidates) = 3
  /\ Cardinality(NamedCandidates) = 2
  /\ FirstOf(C10_Candidates) \notin NamedCandidates
  /\ Returned(FirstOf(NamedCandidates))

\* C12: findByEmail's candidates are exactly the rows whose email equals the
\* queried email case-insensitively and whose Build File id is non-empty: it
\* returns null when there is no candidate (an empty email included), the
\* single candidate when there is exactly one, whatever the name hint, and
\* otherwise one of the candidates.
C12_CandidatesByEmailAndFile ==
  probe.op = "findByEmail" =>
    /\ (probe.email = <<>> \/ C10_Candidates = {}) <=> probe.result = Null
    /\ (probe.email # <<>> /\ Cardinality(C10_Candidates) = 1) =>
         Returned(FirstOf(C10_Candidates))
    /\ probe.result # Null => \E c \in C10_Candidates : Returned(c)

C12_Witness ==
  /\ probe.op = "findByEmail"
  /\ probe.leaderName # <<>>
  /\ C10_Candidates = {3}
  /\ NamedCandidates = {}
  /\ Returned(3)
  /\ sheet[3].email # probe.email
  /\ toLowerCase(sheet[2].email) = toLowerCase(probe.email)
  /\ sheet[2].buildFileId = <<>>

\* the header and, in order, the data rows that are undated or dated at or
\* after the cutoff
Retained(data, cutoffDate) ==
  <<data[1]>> \o SelectSeq(Tail(data),
                   LAMBDA r : r.eventDate = <<>> \/ parseDate(r.eventDate) >= cutoffDate)

\* C18: cleanupOldRecords leaves exactly the rows whose event date is empty or
\* at or after now minus the retention horizon, unchanged and in their
\* original order, and a second run at the same clock deletes nothing.
C18_PruneExactlyExpired ==
  (probe.op = "cleanupOldRecords" /\ probe.original # NoSheet) =>
    /\ sheet = Retained(probe.original, probe.clock - retentionDays * 24)
    /\ probe.runs = 2 => sheet = probe.before

C18_Witness ==
  /\ probe.op = "cleanupOldRecords"
  /\ probe.runs = 2
  /\ Len(probe.original) = 4
  /\ Len(sheet) = 3
  /\ parseDate(probe.original[3].eventDate) < probe.clock - retentionDays * 24
  /\ sheet[2].eventDate = <<>>
  /\ parseDate(sheet[3].eventDate) = probe.clock - retentionDays * 24

\* C17: when the tracking sheet is not found or not accessible,
\* isEventProcessed, findByEmail and getStats answer as they do on a ledger
\* holding only its header (the event is new, nobody is found, every count is
\* zero) and do not throw, and markEventProcessed throws; when it does not
\* throw the row has been written.
C17_UnavailableReadsEmptyWritesFail ==
  /\ (probe.op = "isEventProcessed" /\ sheet = NoSheet) =>
       /\ probe.result = isEventProcessed(enabled, <<HeaderRow>>, probe.event)
       /\ ~probe.result.processed /\ ~probe.result.needsUpdate
  /\ (probe.op = "findByEmail" /\ sheet = NoSheet) =>
       /\ probe.result = findByEmail(<<HeaderRow>>, probe.email, probe.leaderName)
       /\ probe.result = Null
  /\ (probe.op = "getStats" /\ sheet = NoSheet) =>
       /\ probe.result = getStats(<<HeaderRow>>)
       /\ probe.result.total = 0
  /\ probe.op = "denied" => ~probe.threw
  /\ probe.op = "markEventProcessed" =>
       /\ probe.before = NoSheet => probe.thrown
       /\ ~probe.thrown => /\ Len(sheet) = Len(probe.before) + 1
                           /\ sheet[Len(sheet)].eventId = probe.event.id
                           /\ SubSeq(sheet, 1, Len(probe.before)) = probe.before

\* the Build Files stored at company folder / leader folder under the
\* leader's Build File name
ArtifactsOf(fileSeq, event) ==
  {f \in LeaderFiles(fileSeq, event) :
     fileSeq[f].name = buildFileNameOf(extractEventData(event).fullName)}

\* findByEmail resolves no existing file for the lead of the event: it returns
\* null, or a Build File id that getBuildFileById no longer finds
EmailLookupFails(data, fileSeq, event) ==
  \E r \in {findByEmail(data, extractEventData(event).email, extractEventData(event).fullName)} :
    r = Null \/ getBuildFileById(fileSeq, r.buildFileId) = 0

\* C13: when the email lookup resolves no existing file while the leader's
\* artifact is stored at company folder / leader folder / '<fullName> - Strong
\* Teams Build File', processPhase2Event succeeds and writes the event's date,
\* time and meeting link to that artifact, the update the email lookup would
\* have led to, leaving every other file alone.
C13_FolderSearchFallback ==
  ( /\ probe.op = "processPhase2Event"
    /\ EmailLookupFails(sheet, probe.files, probe.event)
    /\ ArtifactsOf(probe.files, probe.event) # {} ) =>
    /\ ~probe.result.threw
    /\ probe.result.buildFile \in ArtifactsOf(probe.files, probe.event)
    /\ probe.result.files =
         updatePhase2Settings(probe.files, probe.result.buildFile, probe.result.eventData)
    /\ probe.result.files[probe.result.buildFile].phase2[PHASE2_rows_date]
         = getFormattedDate(probe.event.start)
    /\ \A f \in 1..Len(probe.files) :
         f # probe.result.buildFile => probe.result.files[f] = probe.files[f]

C13_Witness ==
  /\ probe.op = "processPhase2Event"
  /\ findByEmail(sheet, AnnEmail, AnnLee) # Null
  /\ findByEmail(sheet, AnnEmail, AnnLee).buildFileId = fileId(1)
  /\ Len(probe.files) = 3
  /\ probe.files[1].trashed
  /\ ~probe.result.threw
  /\ probe.result.buildFile = 3
  /\ probe.result.eventData.fullName = AnnLee

C15_FailureIsolation ==
  run.pc = "summary" => run.index = Len(run.events)

\* C16: when the success notification fails, or the copy of the login code
\* into the Phase 2 settings fails, while the tracking sheet is there, the
\* Phase 1 event is counted as processed and is recorded in the ledger.
C16_SecondaryFailureTolerated ==
  ( /\ last.op = "event"
    /\ last.kind = "Phase 1"
    /\ sheet # NoSheet
    /\ \/ last.mail = "failed"
       \/ /\ last.idsCalled
          /\ files[Len(files)].phase1[phase1LoginCodeRow] # <<>>
          /\ files[Len(files)].phase2[phase2LoginCodeRow] = <<>> ) =>
    /\ last.counter = "success"
    /\ RecordedUnchanged(sheet, last.event)

\* the event ids recorded in the ledger
RecordedIds(data) == {data[i].eventId : i \in 2..Len(data)}

\* C19: no step of a batch run removes a ledger row: the row count does not
\* drop and no recorded event id disappears, whether events fail, are skipped
\* or are reprocessed after a change; rows go only when the ledger is pruned
\* or reset while no run is under way (or its tab is deleted by hand).
C19_BatchNeverRemovesRows ==
  [][ (Len(sheet') < Len(sheet) \/ ~(RecordedIds(sheet) \subseteq RecordedIds(sheet'))) =>
        /\ run.pc = "idle" /\ run'.pc = "idle"
        /\ sheet' \in {cleanupOldRecords(sheet, now), resetEventTracking(sheet), NoSheet} ]_vars

C19_Witness ==
  /\ last.op = "event"
  /\ last.counter = "error"
  /\ Len(sheet) = 2
  /\ last.event.id \notin RecordedIds(sheet)
  /\ run.index = 2
  /\ run.alreadyProcessedCount = 1

\* C20: when the loop of a run is over, the four counters add up to the
\* number of events pulled; and the newly-processed counter moves only in an
\* iteration whose transition and markEventProcessed both returned, leaving
\* the event recorded.
C20_CountersPartitionBatch ==
  /\ run.pc = "summary" =>
       run.successCount + run.alreadyProcessedCount + run.skippedCount + run.errorCount
         = Len(run.events)
  /\ (last.op = "event" /\ last.counter = "success") =>
       /\ sheet # NoSheet
       /\ RecordedUnchanged(sheet, last.event)

\* C21: every invocation of onCalendarTrigger logs the processing summary
\* (the four counters, then LoggerUtils.logEnd) before it returns: the only
\* step that ends an invocation is the one that logs the summary.
C21_SummaryBeforeReturn ==
  [][(run.pc # "idle" /\ run'.pc = "idle") => run.pc = "summary"]_vars

\* C22: with CONFIG.PROCESSED_EVENTS.enabled false, isEventProcessed answers
\* {processed: false, needsUpdate: false, rowIndex: -1} for the event whatever
\* the ledger holds and the iteration leaves the ledger as it was, no event is
\* counted as already processed, and every run takes every event it pulled
\* through its iteration.
C22_DisabledTrackingReprocessesAll ==
  [][~config.enabled =>
       /\ IterationStep =>
            /\ isEventProcessed(config.enabled, sheet, CurrentEvent) = NotTracked
            /\ last'.tracking = NotTracked
            /\ last'.counter # "alreadyProcessed"
            /\ sheet' = sheet
       /\ (run.pc = "summary" /\ run'.pc = "idle") =>
            /\ run.index = Len(run.events)
            /\ run.alreadyProcessedCount = 0]_vars

\* the date, time and meeting link cells of every Phase 2 sheet are as before
\* (a Build File made by the step has them empty)
Phase2CellsKept(before, after) ==
  \A f \in 1..Len(after) : \A r \in {PHASE2_rows_date, PHASE2_rows_time, PHASE2_rows_zoomLink} :
    after[f].phase2[r] = IF f <= Len(before) THEN before[f].phase2[r] ELSE <<>>

\* C23: how an event is handled depends on its description text only: with
\* a Phase 1 identifier in it the event goes through the Phase 1 branch,
\* also when a Phase 2 identifier is in it too (no Phase 2 cell is written
\* and a row written for it says "Phase 1"); with a Phase 2 identifier only it
\* goes through the Phase 2 branch; with neither it is counted as skipped and
\* the ledger is not read, and ledger, folders, Build Files and link API
\* are left alone.
C23_ClassifiedByDescription ==
  [][IterationStep =>
       LET text == DescriptionTexts[CurrentEvent.description]
       IN IF includesAny(text, PHASE1_identifiers)
          THEN /\ last'.kind = "Phase 1"
               /\ Phase2CellsKept(files, files')
               /\ \A i \in 2..Len(sheet') :
                    (i > Len(sheet) \/ sheet'[i] # sheet[i]) => sheet'[i].phase = "Phase 1"
          ELSE IF includesAny(text, PHASE2_identifiers)
          THEN /\ last'.kind = "Phase 2"
               /\ folders' = folders /\ Len(files') = Len(files) /\ idsCalls' = idsCalls
          ELSE /\ last'.kind = "none" /\ last'.counter = "skipped" /\ ~last'.ledgerRead
               /\ run'.skippedCount = run.skippedCount + 1
               /\ UNCHANGED <<sheet, folders, files, idsCalls>>]_vars

\* a batch of a booking of another kind, skipped, and a booking naming both
\* phases, taken through Phase 1
C23_Witness ==
  /\ last.op = "event" /\ run.index = 2
  /\ run.skippedCount = 1 /\ run.successCount = 1
  /\ last.event.description = "Both" /\ last.kind = "Phase 1" /\ last.created
  /\ sheet[Len(sheet)].phase = "Phase 1"

\* two versions of an event do not differ in start, end, location or
\* description text
SameDetails(first, second) ==
  /\ first.start = second.start /\ first.end = second.end
  /\ first.location = second.location
  /\ getDescription(first) = getDescription(second)

\* the same, with the description cut to its first 100 characters
SameHashedDetails(first, second) ==
  /\ first.start = second.start /\ first.end = second.end
  /\ first.location = second.location
  /\ substring0(getDescription(first), 100) = substring0(getDescription(second), 100)

\* C24 as claimed: two versions of an event have different fingerprints
\* exactly when they differ in start, end, location or description.
C24_FingerprintIffDetailsChange ==
  probe.op = "generateFingerprint" =>
    (probe.fingerprints[1] # probe.fingerprints[2] <=> ~SameDetails(probe.first, probe.second))

\* C24: two versions of an event that agree on start, end, location and the
\* first 100 characters of the description have the same fingerprint, so a
\* change of fingerprint tells a change of one of those; a description changed
\* after its 100th character leaves the fingerprint as it was.
C24_FingerprintOfHashedDetails ==
  probe.op = "generateFingerprint" =>
    /\ SameHashedDetails(probe.first, probe.second)
          => probe.fingerprints[1] = probe.fingerprints[2]
    /\ probe.fingerprints[1] # probe.fingerprints[2]
          => ~SameDetails(probe.first, probe.second)

\* the booking and its version with the address changed in the last
\* character: the descriptions differ, the fingerprints do not
C24_Witness ==
  /\ probe.op = "generateFingerprint"
  /\ probe.first.description = "P1Ann" /\ probe.second.description = "P1AnnCon"
  /\ getDescription(probe.first) # getDescription(probe.second)
  /\ SameHashedDetails(probe.first, probe.second)
  /\ probe.fingerprints[1] = probe.fingerprints[2]

\* the booking form of a Phase 1 or Phase 2 event lacks the first name, the
\* last name or an email address
Unextractable(event) ==
  /\ event.description \in Phase1Descriptions \cup Phase2Descriptions
  /\ \/ AllDescriptions[event.description].firstName = <<>>
     \/ AllDescriptions[event.description].lastName = <<>>
     \/ indexOfChar(AllDescriptions[event.description].email, 64) = 0

\* C25: an event from which first name, last name or email cannot be
\* extracted is counted as an error while folders, Build Files, link API and
\* ledger are left as they were, with no row for the event; every run that
\* pulls such an event attempts it; and an email that extractEventData
\* returns is not empty and holds an "@".
C25_ExtractionFailsFast ==
  [][/\ (IterationStep /\ Unextractable(CurrentEvent)) =>
          /\ extractEventData(CurrentEvent).threw
          /\ last'.counter = "error"
          /\ UNCHANGED <<sheet, folders, files, idsCalls>>
          /\ RowsWithId(sheet', CurrentEvent.id) = {}
     /\ (IterationStep /\ ~extractEventData(CurrentEvent).threw) =>
          /\ extractEventData(CurrentEvent).email # <<>>
          /\ indexOfChar(extractEventData(CurrentEvent).email, 64) > 0
     /\ (run.pc = "summary" /\ run'.pc = "idle") =>
          \A i \in 1..Len(run.events) : Unextractable(run.events[i]) => i <= run.index]_vars

\* the Build File that processLeaderBuildFile finds for the lead of the
\* event, 0 when the leader folder holds none
ExistingBuildFile(fileSeq, event) ==
  findFileInFolder(fileSeq,
                   <<extractEventData(event).companyName, extractEventData(event).fullName>>,
                   buildFileNameOf(extractEventData(event).fullName))

\* the iteration takes the event through processLeaderBuildFile
ReachesBuildFile(event) ==
  /\ includesAny(DescriptionTexts[event.description], PHASE1_identifiers)
  /\ ~isEventProcessed(config.enabled, sheet, event).processed
  /\ ~extractEventData(event).threw

\* C26: when the leader already has a Build File, a Phase 1 run writes the
\* date, time, leader name and meeting link of the event into its Phase 1
\* sheet and nothing else: the login code cell, the link cell and the whole
\* Phase 2 sheet of the file stay as they were, as does every other file; no
\* file is created and the link API is not called.
C26_ExistingFileFourCellsOnly ==
  [][(IterationStep /\ ReachesBuildFile(CurrentEvent)
        /\ ExistingBuildFile(files, CurrentEvent) # 0) =>
       LET f == ExistingBuildFile(files, CurrentEvent)
           eventData == extractEventData(CurrentEvent)
       IN /\ Len(files') = Len(files)
          /\ idsCalls' = idsCalls
          /\ \A g \in 1..Len(files) : g # f => files'[g] = files[g]
          /\ files'[f].phase2 = files[f].phase2
          /\ files'[f].phase1[phase1LoginCodeRow] = files[f].phase1[phase1LoginCodeRow]
          /\ files'[f].phase1[phase1LinkRow] = files[f].phase1[phase1LinkRow]
          /\ files'[f].phase1[PHASE1_rows_date] = eventData.formattedDate
          /\ files'[f].phase1[PHASE1_rows_time] = eventData.formattedTime
          /\ files'[f].phase1[PHASE1_rows_name] = eventData.fullName
          /\ files'[f].phase1[PHASE1_rows_zoomLink] = eventData.zoomLink
          /\ files'[f].id = files[f].id]_vars

\* a relocated booking taken through Phase 1 again: the Build File made by
\* the first run holds the new meeting link and the login code it had
C26_Witness ==
  /\ last.op = "event" /\ last.kind = "Phase 1" /\ last.counter = "success"
  /\ ~last.created /\ ~last.idsCalled
  /\ last.tracking.needsUpdate
  /\ last.event.location # FirstLocation
  /\ files[last.buildFile].phase1[PHASE1_rows_zoomLink] = last.event.location
  /\ files[last.buildFile].phase1[phase1LoginCodeRow] # <<>>
  /\ files[last.buildFile].phase2[phase2LoginCodeRow] # <<>>

\* C27: when the leader has no Build File, a Phase 1 run appends one file to
\* the leader folder with the four Phase 1 cells of the event written and
\* calls the link API exactly once; when the call fails the file is left with
\* empty login code and link cells and an untouched Phase 2 sheet and the
\* event is an error; when it succeeds the Phase 1 login code cell holds the
\* minted code, the Phase 2 login code cell holds the same code or, when the
\* copy failed, nothing, and the Phase 1 link cell holds the response URL
\* when CONFIG.IDS_API.storeFullUrlInRow4 is true and stays empty otherwise.
C27_NewFileStepsInOrder ==
  [][(IterationStep /\ ReachesBuildFile(CurrentEvent)
        /\ ExistingBuildFile(files, CurrentEvent) = 0) =>
       LET f == Len(files) + 1
           eventData == extractEventData(CurrentEvent)
           minted == generateResponseLink(idsCalls + 1, TRUE)
       IN /\ Len(files') = f
          /\ SubSeq(files', 1, Len(files)) = files
          /\ files'[f].parent = <<eventData.companyName, eventData.fullName>>
          /\ files'[f].name = buildFileNameOf(eventData.fullName)
          /\ files'[f].phase1[PHASE1_rows_date] = eventData.formattedDate
          /\ files'[f].phase1[PHASE1_rows_time] = eventData.formattedTime
          /\ files'[f].phase1[PHASE1_rows_name] = eventData.fullName
          /\ files'[f].phase1[PHASE1_rows_zoomLink] = eventData.zoomLink
          /\ idsCalls' = idsCalls + 1
          /\ \A r \in {PHASE2_rows_date, PHASE2_rows_time, PHASE2_rows_zoomLink} :
               files'[f].phase2[r] = <<>>
          /\ \/ /\ files'[f].phase1[phase1LoginCodeRow] = <<>>
                /\ files'[f].phase1[phase1LinkRow] = <<>>
                /\ files'[f].phase2[phase2LoginCodeRow] = <<>>
                /\ last'.counter = "error"
             \/ /\ files'[f].phase1[phase1LoginCodeRow] = minted.loginCode
                /\ files'[f].phase1[phase1LinkRow] =
                     (IF config.storeFullUrlInRow4 THEN minted.responseLink ELSE <<>>)
                /\ files'[f].phase2[phase2LoginCodeRow] \in {minted.loginCode, <<>>}]_vars

\* a new Build File of a deployment that stores the full URL: code in both
\* sheets, URL in the link cell
C27_Witness ==
  /\ last.op = "event" /\ last.kind = "Phase 1" /\ last.counter = "success"
  /\ last.created /\ last.idsCalled
  /\ config.storeFullUrlInRow4
  /\ files[last.buildFile].phase1[phase1LoginCodeRow] # <<>>
  /\ files[last.buildFile].phase1[phase1LinkRow] # <<>>
  /\ files[last.buildFile].phase2[phase2LoginCodeRow]
       = files[last.buildFile].phase1[phase1LoginCodeRow]

\* C28: a successful Phase 2 transition writes the date, time and meeting
\* link of the event into the Phase 2 sheet of the Build File it resolved and
\* puts the Phase 1 login code, when there is one, into the Phase 2 login code
\* cell; the Phase 1 sheet of that file and every other file stay as they
\* were, no folder and no file is created, the link API is not called, and the
\* ledger row written for the event holds no Build File id and no folder id.
C28_Phase2WritesPhase2Only ==
  [][(IterationStep /\ last'.kind = "Phase 2" /\ last'.counter = "success") =>
       LET f == last'.buildFile
           eventData == extractEventData(CurrentEvent)
       IN /\ f \in 1..Len(files)
          /\ folders' = folders /\ idsCalls' = idsCalls /\ Len(files') = Len(files)
          /\ \A g \in 1..Len(files) : g # f => files'[g] = files[g]
          /\ files'[f].phase1 = files[f].phase1
          /\ files'[f].id = files[f].id /\ files'[f].parent = files[f].parent
          /\ files'[f].phase2[PHASE2_rows_date] = eventData.formattedDate
          /\ files'[f].phase2[PHASE2_rows_time] = eventData.formattedTime
          /\ files'[f].phase2[PHASE2_rows_zoomLink] = eventData.zoomLink
          /\ files'[f].phase2[phase2LoginCodeRow] =
               (IF files[f].phase1[phase1LoginCodeRow] # <<>>
                THEN files[f].phase1[phase1LoginCodeRow]
                ELSE files[f].phase2[phase2LoginCodeRow])
          /\ \A i \in RowsWithId(sheet', CurrentEvent.id) :
               sheet'[i].buildFileId = <<>> /\ sheet'[i].leaderFolderId = <<>>]_vars

\* a Phase 2 booking handled after the Phase 1 booking of the same leader:
\* the Build File holds the Phase 2 date and the login code in both sheets,
\* the row of the Phase 2 event names no file
C28_Witness ==
  /\ last.op = "event" /\ last.kind = "Phase 2" /\ last.counter = "success"
  /\ files[last.buildFile].phase2[PHASE2_rows_date] # <<>>
  /\ files[last.buildFile].phase1[phase1LoginCodeRow] # <<>>
  /\ files[last.buildFile].phase2[phase2LoginCodeRow]
       = files[last.buildFile].phase1[phase1LoginCodeRow]
  /\ \E i \in RowsWithId(sheet, last.event.id) :
       sheet[i].phase = "Phase 2" /\ sheet[i].buildFileId = <<>>

\* the row markEventProcessed builds for the probe
ProbeRowData ==
  [ eventId |-> probe.event.id,
    fingerprint |-> generateFingerprint(probe.event),
    phase |-> "Phase 2",
    leaderName |-> BobRay,
    company |-> getCompanyFromEmail(BobEmail),
    eventDate |-> toISOString(probe.event.start),
    processedAt |-> toISOString(probe.clock),
    lastUpdated |-> toISOString(probe.clock),
    email |-> BobEmail,
    buildFileId |-> <<>>,
    leaderFolderId |-> <<>> ]

\* C29: given a row of the sheet as row index, markEventProcessed replaces
\* every column of that row (event id, fingerprint computed anew, phase,
\* leader name, company, event date, both timestamps, email, Build File id,
\* folder id) and leaves every other row and the number of rows as they
\* were; given no row index (-1 or 0) it adds one row at the end and leaves
\* the others; which rows hold the event id plays no part.
C29_UpsertOnRowReference ==
  probe.op = "markEventProcessedAt" =>
    IF probe.existingRowIndex > 0
    THEN /\ Len(sheet) = Len(probe.before)
         /\ sheet[probe.existingRowIndex] = ProbeRowData
         /\ \A i \in 1..Len(sheet) : i # probe.existingRowIndex => sheet[i] = probe.before[i]
    ELSE /\ Len(sheet) = Len(probe.before) + 1
         /\ sheet[Len(sheet)] = ProbeRowData
         /\ SubSeq(sheet, 1, Len(probe.before)) = probe.before

\* the record of e1 written over the row of e2 while the row that holds e1
\* stays as it was: the sheet now has two rows for e1
C29_Witness ==
  /\ probe.op = "markEventProcessedAt"
  /\ probe.existingRowIndex > 1
  /\ probe.before[probe.existingRowIndex].eventId # probe.event.id
  /\ sheet[probe.existingRowIndex].eventId = probe.event.id
  /\ sheet[probe.existingRowIndex].processedAt # probe.before[probe.existingRowIndex].processedAt
  /\ \E i \in RowsWithId(probe.before, probe.event.id) :
       i # probe.existingRowIndex /\ sheet[i] = probe.before[i]

\* C30: with tracking enabled, a successful iteration of onCalendarTrigger
\* hands markEventProcessed the row isEventProcessed returned for the same
\* event in that iteration when needsUpdate is true, and -1 otherwise: the
\* write then lands in place on that row, which stored the event's id before
\* the write and stores it after, and every other row is untouched; without
\* needsUpdate one row with the event's id is appended below the others.
C30_InPlaceWriteOnOwnRow ==
  [][ ( /\ IterationStep
        /\ config.enabled
        /\ run'.successCount = run.successCount + 1 ) =>
        /\ last'.tracking = isEventProcessed(config.enabled, sheet, CurrentEvent)
        /\ IF last'.tracking.needsUpdate
           THEN /\ last'.tracking.rowIndex \in 2..Len(sheet)
                /\ sheet[last'.tracking.rowIndex].eventId = CurrentEvent.id
                /\ Len(sheet') = Len(sheet)
                /\ sheet'[last'.tracking.rowIndex].eventId = CurrentEvent.id
                /\ sheet'[last'.tracking.rowIndex].fingerprint = generateFingerprint(CurrentEvent)
                /\ \A j \in 1..Len(sheet) :
                     j # last'.tracking.rowIndex => sheet'[j] = sheet[j]
           ELSE /\ last'.tracking.rowIndex = -1
                /\ Len(sheet') = Len(sheet) + 1
                /\ SubSeq(sheet', 1, Len(sheet)) = sheet
                /\ sheet'[Len(sheet')].eventId = CurrentEvent.id ]_vars

C30_Witness ==
  /\ last.op = "event"
  /\ last.counter = "success"
  /\ config.enabled
  /\ last.tracking.needsUpdate
  /\ last.tracking.rowIndex < Len(sheet)
  /\ sheet[last.tracking.rowIndex].eventId = last.event.id
  /\ sheet[last.tracking.rowIndex].fingerprint = generateFingerprint(last.event)
  /\ sheet[Len(sheet)].eventId # last.event.id

\* the hash as the claim states it, on the four bytes <<b0, b1, b2, b3>> of
\* the 32-bit value (least significant first): h := 31 * h + charCode
claimedStep(b, c) ==
  Only({ Only({ Only({ << t0 % 256, t1 % 256, t2 % 256, (31 * b[4] + (t2 \div 256)) % 256 >>
                       : t2 \in {31 * b[3] + (t1 \div 256)} })
                : t1 \in {31 * b[2] + (t0 \div 256)} })
         : t0 \in {31 * b[1] + c} })

RECURSIVE claimedHash(_, _, _, _)
claimedHash(details, lo, hi, b) ==
  IF lo > hi THEN b
  ELSE IF lo = hi THEN claimedStep(b, details[lo])
  ELSE Only({ Only({ claimedHash(details, mid + 1, hi, left) :
                       left \in {claimedHash(details, lo, mid, b)} })
              : mid \in {(lo + hi) \div 2} })

\* the absolute value of the signed 32-bit value with bytes b, as
\* <<value \div 2^24, value % 2^24>>
claimedMagnitude(b) ==
  Only({ IF b[4] < 128 THEN <<b[4], low>>
         ELSE IF low = 0 THEN <<256 - b[4], 0>>
         ELSE <<255 - b[4], 16777216 - low>>
         : low \in {b[1] + 256 * b[2] + 65536 * b[3]} })

\* hexadecimal digits of a magnitude, without leading zeros
claimedHex(m) ==
  IF m[1] = 0 THEN hex(m[2])
  ELSE hex(m[1]) \o SubSeq(<<48, 48, 48, 48, 48>> \o hex(m[2]),
                           Len(hex(m[2])), Len(hex(m[2])) + 5)

\* the four inputs, joined with '|' in the claimed order
claimedDetails(event) ==
  toISOString(event.start) \o <<124>> \o toISOString(event.end) \o <<124>>
    \o event.location \o <<124>> \o substring0(getDescription(event), 100)

claimedBytes(event) ==
  Only({ claimedHash(details, 1, Len(details), <<0, 0, 0, 0>>)
         : details \in {claimedDetails(event)} })

\* C33: generateFingerprint depends on start (ISO), end (ISO), location and
\* the first 100 characters of the description only, joined with '|' in that
\* order: two versions agreeing on the four have equal fingerprints, whatever
\* their title or the rest of their description; the value is the
\* hexadecimal rendering of the absolute value of h := 31 * h + charCode
\* wrapped to a signed 32-bit integer at every step, and so lies between 0
\* and 2^31.
C33_FingerprintOfFourInputs ==
  probe.op = "generateFingerprint" =>
    /\ SameHashedDetails(probe.first, probe.second)
          => probe.fingerprints[1] = probe.fingerprints[2]
    /\ probe.fingerprints[1] = claimedHex(claimedMagnitude(claimedBytes(probe.first)))
    /\ probe.fingerprints[2] = claimedHex(claimedMagnitude(claimedBytes(probe.second)))
    /\ \A m \in {claimedMagnitude(claimedBytes(probe.first))} :
          m[1] < 128 \/ (m[1] = 128 /\ m[2] = 0)

\* a booking whose hash is negative, and the same booking under a title
C33_Witness ==
  /\ probe.op = "generateFingerprint"
  /\ claimedBytes(probe.first)[4] >= 128
  /\ "title" \in DOMAIN probe.second /\ "title" \notin DOMAIN probe.first
  /\ SameHashedDetails(probe.first, probe.second)
  /\ probe.fingerprints[1] = probe.fingerprints[2]

\* C37: every ledger row the batch wrote for a Phase 2 event has an empty
\* Build File id and an empty folder id, every row it wrote for a Phase 1
\* event has both, and so findByEmail, for any email and name, returns no
\* row written for a Phase 2 event.
C37_Phase2RowsNeverReturned ==
  /\ \A i \in 2..Len(sheet) :
       /\ sheet[i].phase = "Phase 2" =>
            sheet[i].buildFileId = <<>> /\ sheet[i].leaderFolderId = <<>>
       /\ sheet[i].phase = "Phase 1" =>
            sheet[i].buildFileId # <<>> /\ sheet[i].leaderFolderId # <<>>
  /\ (\E i \in 2..Len(sheet) : sheet[i].phase = "Phase 2") =>
       \A email \in ProbeEmails, leaderName \in ProbeNames :
          \A found \in {findByEmail(sheet, email, leaderName)} :
             found # Null => sheet[found.rowIndex + 1].phase = "Phase 1"

\* the ledger holds a Phase 2 row with the address of a Phase 1 row, and
\* the lookup by that address returns the Phase 1 row
C37_Witness ==
  /\ Len(sheet) >= 3
  /\ \E i, j \in 2..Len(sheet) :
       /\ sheet[i].phase = "Phase 1" /\ sheet[j].phase = "Phase 2"
       /\ toLowerCase(sheet[i].email) = toLowerCase(sheet[j].email)
       /\ findByEmail(sheet, sheet[j].email, sheet[j].leaderName) # Null
       /\ findByEmail(sheet, sheet[j].email, sheet[j].leaderName).rowIndex + 1 = i

\* C38: once a ledger row holds a Build File id, no in-place update of that
\* row by a batch run (the reprocess of the same event after a change,
\* whatever phase it is then classified as) leaves it without one.
C38_BuildFileIdNeverLost ==
  [][ \A i \in 2..Len(sheet) :
        ( /\ IterationStep
          /\ sheet[i].buildFileId # <<>>
          /\ Len(sheet') = Len(sheet)
          /\ sheet'[i] # sheet[i] ) =>
          sheet'[i].buildFileId # <<>> ]_vars

\* C39: in every Build File (each is a copy of the template, whose
\* login-code cells are empty) the Phase 2 login-code cell is empty or equal
\* to the Phase 1 login-code cell, after any sequence of Phase 1 and Phase 2
\* runs.
C39_Phase2CodeIsPhase1Code ==
  \A f \in 1..Len(files) :
     \/ files[f].phase2[phase2LoginCodeRow] = <<>>
     \/ files[f].phase2[phase2LoginCodeRow] = files[f].phase1[phase1LoginCodeRow]

\* a Phase 2 run has written its cells into a Build File that carries a
\* login code, and the Phase 2 sheet shows that code
C39_Witness ==
  /\ last.op = "event" /\ last.kind = "Phase 2" /\ last.counter = "success"
  /\ files[last.buildFile].phase2[PHASE2_rows_date] # <<>>
  /\ files[last.buildFile].phase1[phase1LoginCodeRow] # <<>>
  /\ files[last.buildFile].phase2[phase2LoginCodeRow]
       = files[last.buildFile].phase1[phase1LoginCodeRow]

\* a Phase 2 event whose form yields the lead
Phase2Pending(event) ==
  /\ isPhase2Event(event) /\ ~isPhase1Event(event)
  /\ ~Unextractable(event)

\* the ledger records, from before the clock's hour, a Phase 1 transition
\* that produced an artifact of the lead of the event
Phase1DoneEarlier(data, fileSeq, event, clock) ==
  \E i \in 2..Len(data), f \in ArtifactsOf(fileSeq, event) :
     /\ data[i].phase = "Phase 1"
     /\ data[i].buildFileId = fileSeq[f].id
     /\ parseDate(data[i].processedAt) < clock

\* C35: a Phase 2 event met while its leader has no artifact is counted as
\* an error, with the ledger, the folders and the Build Files left as they
\* were; and when a run that follows a recorded Phase 1 transition of the
\* leader is over, the Phase 2 event is recorded.
C35_Phase2WaitsForPhase1 ==
  [][ /\ ( /\ IterationStep
           /\ Phase2Pending(CurrentEvent)
           /\ ~isEventProcessed(config.enabled, sheet, CurrentEvent).processed
           /\ ArtifactsOf(files, CurrentEvent) = {} ) =>
           /\ run'.errorCount > run.errorCount
           /\ run'.successCount = run.successCount
           /\ sheet' = sheet /\ files' = files /\ folders' = folders
      /\ (run.pc = "summary" /\ sheet # NoSheet) =>
           \A k \in 1..Len(run.events) :
              ( /\ Phase2Pending(run.events[k])
                /\ Phase1DoneEarlier(sheet, files, run.events[k], now) ) =>
                RecordedUnchanged(sheet, run.events[k]) ]_vars

\* C36: when the event list of a batch holds an event a second time, with
\* the same id and details, and the first occurrence was processed and
\* recorded, the second occurrence is counted as already processed and
\* nothing is written for it: the ledger holds one row for the event, and
\* folders, Build Files and link API are left as the first occurrence left
\* them; and an occurrence that is processed successfully is recorded.
C36_SecondOccurrenceSkipped ==
  [][ /\ ( /\ IterationStep
           /\ config.enabled
           /\ \E k \in 1..run.index : run.events[k] = CurrentEvent
           /\ RecordedUnchanged(sheet, CurrentEvent) ) =>
           /\ run'.alreadyProcessedCount = run.alreadyProcessedCount + 1
           /\ run'.successCount = run.successCount
           /\ run'.errorCount = run.errorCount
           /\ sheet' = sheet /\ files' = files /\ folders' = folders /\ idsCalls' = idsCalls
           /\ Cardinality(RowsWithId(sheet', CurrentEvent.id)) = 1
      /\ ( /\ IterationStep
           /\ config.enabled
           /\ run'.successCount = run.successCount + 1 ) =>
           RecordedUnchanged(sheet', CurrentEvent) ]_vars

\* a Phase 1 booking shown by both calendars: processed at its first
\* occurrence, which created its Build File, skipped at its second
C36_Witness ==
  /\ last.op = "event"
  /\ last.counter = "alreadyProcessed"
  /\ isPhase1Event(last.event)
  /\ last.event.secondary
  /\ run.successCount >= 1
  /\ \E k \in 1..(run.index - 1) : run.events[k] = last.event
  /\ Cardinality(RowsWithId(sheet, last.event.id)) = 1
  /\ Cardinality(LeaderFiles(files, last.event)) = 1
  /\ idsCalls = 1

\* C34: under repeated batch runs, one after the other, every Phase 1 event
\* that stays in the monitoring window unchanged and whose form yields the
\* lead is eventually recorded in the ledger with its fingerprint, provided
\* the calls to storage, ledger and link API eventually succeed.
C34_EventuallyRecorded ==
  \A id \in EventIds :
     ( /\ calendar[id] # Absent
       /\ isPhase1Event(calendar[id])
       /\ ~Unextractable(calendar[id])
       /\ inWindow(calendar[id], now) )
       ~> (calendar[id] # Absent /\ RecordedUnchanged(sheet, calendar[id]))

\* the step with which invocation i leaves the given position
Leaves(i, position) == overlap[i].pc = position /\ overlap'[i].pc # position

\* the event whose iteration invocation i finished last
FinishedEvent(i) == overlap[i].events[overlap[i].index]

\* C32: nothing keeps two invocations of the batch apart.  An invocation
\* that finds the ledger and the leader folder as it read them appends a row
\* only for an event id that has none, copies the template only when the
\* leader folder holds no Build File, and calls the link API only then; two
\* invocations that overlap can both read the same first-time Phase 1 event
\* as new, and then the ledger gets two rows with its id, the template is
\* copied twice and the link API is called twice.
C32_GuaranteesWithoutOverlap ==
  [][ \A i \in Invocations :
        /\ (Leaves(i, "mark") /\ sheet = overlap[i].seen) =>
             /\ RowsWithId(sheet', InvocationEvent(i).id) =
                  IF RowsWithId(sheet, InvocationEvent(i).id) = {} THEN {Len(sheet) + 1}
                  ELSE RowsWithId(sheet, InvocationEvent(i).id)
             /\ Len(sheet') =
                  Len(sheet) + (IF RowsWithId(sheet, InvocationEvent(i).id) = {} THEN 1 ELSE 0)
        /\ (Leaves(i, "build") /\ files = overlap[i].drive) =>
             /\ Len(files') =
                  Len(files) + (IF LeaderFiles(files, InvocationEvent(i)) = {} THEN 1 ELSE 0)
             /\ idsCalls' =
                  idsCalls + (IF LeaderFiles(files, InvocationEvent(i)) = {} THEN 1 ELSE 0)
             /\ LeaderFiles(files', InvocationEvent(i)) # {} ]_vars

\* both invocations read the first-time booking e1 as new and found no Build
\* File, and both went through: two rows for e1, two Build Files in the
\* leader folder, two calls to the link API
C32_Witness ==
  /\ \A i \in Invocations :
       /\ overlap[i].pc = "done"
       /\ overlap[i].counter = "success"
       /\ FinishedEvent(i).id = "e1"
       /\ overlap[i].tracking = NotTracked
       /\ overlap[i].seen = <<HeaderRow>>
       /\ overlap[i].existing = 0
       /\ overlap[i].drive = <<>>
  /\ Cardinality(RowsWithId(sheet, "e1")) = 2
  /\ Cardinality(LeaderFiles(files, calendar["e1"])) = 2
  /\ Len(files) = 2
  /\ idsCalls = 2

\* C31: the in-place write of a stale event goes to the row index that
\* isEventProcessed reported, whatever the ledger holds by then: on a ledger
\* left as it was read it replaces the event's own record, and when rows
\* were deleted in between it replaces the record that moved to that index,
\* or lands beyond the last row.
C31_RowIndexNotStable ==
  [][ \A i \in Invocations :
        (Leaves(i, "mark") /\ overlap[i].tracking.needsUpdate) =>
          /\ Len(sheet') = IF overlap[i].tracking.rowIndex > Len(sheet)
                           THEN overlap[i].tracking.rowIndex ELSE Len(sheet)
          /\ sheet'[overlap[i].tracking.rowIndex].eventId = InvocationEvent(i).id
          /\ sheet'[overlap[i].tracking.rowIndex].fingerprint =
               generateFingerprint(InvocationEvent(i))
          /\ \A k \in 1..Len(sheet) : k # overlap[i].tracking.rowIndex => sheet'[k] = sheet[k]
          /\ (sheet = overlap[i].seen =>
                sheet[overlap[i].tracking.rowIndex].eventId = InvocationEvent(i).id) ]_vars

\* both invocations read the stale record of e1 in row 3, below the record
\* of a booking long past.  cleanupOldRecords ran before the first one's
\* write, which replaced the record of e2, moved up to row 3; the ledger was
\* reset before the second one's write, which landed two rows below the
\* header, the last row by then
C31_Witness ==
  /\ \A i \in Invocations :
       /\ overlap[i].counter = "success"
       /\ overlap[i].index >= 1
       /\ FinishedEvent(i).id = "e1"
       /\ overlap[i].tracking.needsUpdate
       /\ overlap[i].seen[overlap[i].tracking.rowIndex].eventId = "e1"
  /\ overlap["first"].before = cleanupOldRecords(overlap["first"].seen, now)
  /\ overlap["first"].tracking.rowIndex <= Len(overlap["first"].before)
  /\ overlap["first"].before[overlap["first"].tracking.rowIndex].eventId = "e2"
  /\ overlap["second"].before = resetEventTracking(overlap["second"].seen)
  /\ overlap["second"].tracking.rowIndex > Len(overlap["second"].before) + 1
  /\ Len(sheet) = overlap["second"].tracking.rowIndex
  /\ sheet[Len(sheet)].eventId = "e1"

====
